---- MODULE Spec2Model ----
(***************************************************************************)
(* aiodal.web: the optimistic-concurrency (etag) update protocol of        *)
(* DetailController.query / UpdateController.update with EtagHandler and   *)
(* SoftDeleteHandler, and the offset/limit paginator.                      *)
(*                                                                         *)
(* Spec          the etag protocol: concurrent requests against the book   *)
(*               table, each one transaction (fetch, checks, conditional   *)
(*               UPDATE, response header, commit).                         *)
(* SpecPaginator the pure function paginator._default_paginator applied    *)
(*               to inputs drawn from bounded sets.                        *)
(* SpecPage      paginator.model_mapper (and get) applied to a result set. *)
(* SpecTransaction  dal.transaction: contexts entered one after another,   *)
(*               their bodies executing statements, finishing or raising.  *)
(* SpecAliased   set_aliased / get_aliased on a TransactionManager and on  *)
(*               DataAccessLayer instances.                                *)
(* SpecBulk      bulk.BulkLoadScript.run: the statements of its ops inside *)
(*               one transaction block, each of which may fail.            *)
(* SpecConflict  one call of CreateController.create or                    *)
(*               UpdateController.update whose statement the driver may    *)
(*               refuse.                                                   *)
(* SpecAuth      one call of Auth0.check_for_scopes or Auth0.get_user.     *)
(* SpecView      one call of oqm ListViewQuery.from_query.                 *)
(* SpecFilter    one call of oqm Filter.filter_stmt.                       *)
(* SpecClient    a client following the next_url of a list route.          *)
(* SpecEtag      one call of set_current_etag on an EtagHandler with a     *)
(*               configured field.                                         *)
(* SpecDal       set_aliased, reflect and the lookups on DataAccessLayer   *)
(*               instances.                                                *)
(***************************************************************************)
EXTENDS Integers, Sequences, FiniteSets, TLC

VARIABLES
    db,         \* committed rows of the table: id -> row
    lock,       \* id -> the request whose open transaction has written the row (0: none)
    nextUuid,   \* uuid4 / gen_random_uuid(): the next value not yet issued
    pc,         \* request -> position in the route handler
    ctx,        \* request -> the request context (path id, request headers, handlers)
    etag,       \* request -> the fields of its EtagHandler
    result,     \* request -> the row the last controller call returned
    outcome,    \* request -> HTTP status and detail of the response (status 0: none yet)
    response,   \* request -> the response headers
    executed,   \* request -> how many times the update statement was executed
    pg_in,      \* paginator: the arguments of the call
    pg_out,     \* paginator: what the call returned
    mm_in,      \* model_mapper: the arguments of the call
    mm_out,     \* model_mapper: what the call returned or raised
    author,     \* dal.transaction: the committed rows of the author table
    conn,       \* dal.transaction: the open connection and its TransactionManager
    closed,     \* dal.transaction: the contexts that have exited, oldest first
    DataAccessLayer_aliased_tables,  \* the class attribute DataAccessLayer._aliased_tables
    _aliased_tables,                 \* TransactionManager instance -> its _aliased_tables
    calls,      \* aliases: the set_aliased calls made so far, oldest first
    got,        \* aliases: the last get_aliased call and what it returned or raised
    tables,     \* bulk: the committed rows of the destination tables
    script,     \* bulk: the BulkLoadScript, its position in run and its connection
    ran,        \* bulk: the steps executed so far, oldest first
    conflict,   \* create / update: the driver's fault and what the controller raised
    scope_check,  \* check_for_scopes: the arguments of the call and what it raised
    user,       \* get_user: the arguments of the call and what it returned or raised
    view,       \* oqm from_query: the arguments of the call and the ListViewQuery built
    filtered,   \* oqm filter_stmt: the Filter, the transaction and the statement built
    client,     \* paging client: the URL it requests next and the windows it has seen
    configured, \* set_current_etag of a handler with a configured field: the call, its result
    DataAccessLayer_constraints,  \* the class attribute DataAccessLayer._constraints
    dal_got     \* the last get_aliased / get_unique_constraint on a DataAccessLayer

etagVars == <<db, lock, nextUuid, pc, ctx, etag, result, outcome, response, executed>>
pgVars == <<pg_in, pg_out>>
\* the state outside the etag protocol and the paginator call
mmVars == <<mm_in, mm_out>>
txVars == <<author, conn, closed>>
aliasVars == <<DataAccessLayer_aliased_tables, _aliased_tables, calls, got>>
bulkVars == <<tables, script, ran>>
\* the state of the single calls
lateVars == <<conflict, scope_check, user, view, filtered, client, configured,
              DataAccessLayer_constraints, dal_got>>
restVars == <<mmVars, txVars, aliasVars, bulkVars, lateVars>>
earlyVars == <<etagVars, pgVars, mmVars, txVars, aliasVars, bulkVars>>
vars == <<db, lock, nextUuid, pc, ctx, etag, result, outcome, response, executed,
          pg_in, pg_out, restVars>>

----------------------------------------------------------------------------
(* Bounds *)

NumRequests == 2
MaxOffset == 2
MaxLimit == 2
MaxLen == 2
MaxTotal == 4
MaxTransactions == 2
MaxStatements == 2
MaxCalls == 3
MaxOps == 2
MaxRuns == 2
MaxWheres == 2

\* The rows of the table, and the path ids a client may ask for: the rows and
\* one id with no row.
Ids == {1, 2}
PathIds == Ids \cup {3}
Requests == 1..NumRequests

----------------------------------------------------------------------------
(* Values *)

\* A uuid is an opaque token; the n-th value drawn is <<n>>.  None (and the
\* empty string) is <<>>: the only falsy tag value.
Uuid(n) == <<n>>
None == <<>>
NoRow == [none |-> TRUE]

HTTPException(status_code, detail) == [status |-> status_code, detail |-> detail]
NoException == [status |-> 0, detail |-> ""]

\* Request headers without / with If-Match.
NoHeaders == <<>>
IfMatch(v) == "If-Match" :> v

\* The statements the routes of the example application pass to the controllers.
Kinds == {"get", "patch", "soft_delete"}
Faults == {"none", "IntegrityError", "DBAPIError"}

NewCtx == [id |-> 0, headers |-> NoHeaders, soft_delete_handler |-> FALSE, kind |-> "get"]
NoEtag == [present |-> FALSE, new_etag |-> None, current_etag |-> None]

----------------------------------------------------------------------------
(* version.py *)

\* SoftDeleteHandler.status: the exception it raises, NoException if none.
SoftDeleteHandler_status(obj) ==
    IF obj.deleted THEN HTTPException(410, "Gone.") ELSE NoException

\* Mutant: the uuid is drawn once, when the class is defined, not per instance.
Mut_EtagHandler_SharedUuid(uuid) ==
    [present |-> TRUE, new_etag |-> Uuid(1), current_etag |-> None]

\* EtagHandler.__init__: new_etag = uuid.uuid4().hex, current_etag = None.
EtagHandler(uuid) == [present |-> TRUE, new_etag |-> uuid, current_etag |-> None]

\* Mutant: the comparison with the header is missing.
Mut_set_current_etag_NoCompare(self, headers, obj) ==
    IF "If-Match" \notin DOMAIN headers
    THEN [exc |-> HTTPException(428, "Update requires If-Match header."), etag |-> self]
    ELSE [exc |-> NoException,
          etag |-> [self EXCEPT !.current_etag = obj.etag_version]]

\* Mutant: current_etag is assigned before the comparison.
Mut_set_current_etag_AssignFirst(self, headers, obj) ==
    IF "If-Match" \notin DOMAIN headers
    THEN [exc |-> HTTPException(428, "Update requires If-Match header."), etag |-> self]
    ELSE IF obj.etag_version # headers["If-Match"]
    THEN [exc |-> HTTPException(412, "Precondition Failed."),
          etag |-> [self EXCEPT !.current_etag = obj.etag_version]]
    ELSE [exc |-> NoException,
          etag |-> [self EXCEPT !.current_etag = obj.etag_version]]

\* EtagHandler.set_current_etag: the exception raised and the handler afterwards.
set_current_etag(self, headers, obj) ==
    IF "If-Match" \notin DOMAIN headers
    THEN [exc |-> HTTPException(428, "Update requires If-Match header."), etag |-> self]
    ELSE IF obj.etag_version # headers["If-Match"]
    THEN [exc |-> HTTPException(412, "Precondition Failed."), etag |-> self]
    ELSE [exc |-> NoException,
          etag |-> [self EXCEPT !.current_etag = obj.etag_version]]

\* Mutant: the header is set whether or not the resource has a tag.
Mut_set_header_Unconditional(headers, res) == "Etag" :> res.etag_version

\* version.set_header: the response headers after the call.
set_header(headers, res) ==
    IF res.etag_version # None THEN ("Etag" :> res.etag_version) ELSE headers

----------------------------------------------------------------------------
(* controllers.py, and the statements of tests/crudapp.py *)

\* Mutant: the statement has no WHERE clause and returns the first row.
Mut_query_stmt_NoWhere(rows, c) ==
    IF c.id \in DOMAIN rows THEN rows[c.id] ELSE rows[CHOOSE i \in DOMAIN rows : TRUE]

\* OptLockQueryable / DetailQueryable.query_stmt executed, then one_or_none():
\* SELECT ... WHERE id = :id against the committed rows.
query_stmt(rows, c) == IF c.id \in DOMAIN rows THEN rows[c.id] ELSE NoRow

\* Mutant: the If-Match header is looked for before the row is fetched.
Mut_DetailController_query_HeaderFirst(rows, c, handler) ==
    LET res == query_stmt(rows, c) IN
    IF handler.present /\ "If-Match" \notin DOMAIN c.headers
    THEN [exc |-> HTTPException(428, "Update requires If-Match header."),
          etag |-> handler, result |-> NoRow]
    ELSE IF res = NoRow
    THEN [exc |-> HTTPException(404, "Not Found."), etag |-> handler, result |-> NoRow]
    ELSE IF c.soft_delete_handler /\ SoftDeleteHandler_status(res) # NoException
    THEN [exc |-> SoftDeleteHandler_status(res), etag |-> handler, result |-> NoRow]
    ELSE IF handler.present
    THEN LET s == set_current_etag(handler, c.headers, res) IN
         [exc |-> s.exc, etag |-> s.etag,
          result |-> IF s.exc = NoException THEN res ELSE NoRow]
    ELSE [exc |-> NoException, etag |-> handler, result |-> res]

\* Mutant: the tag is compared before the soft-delete field is checked.
Mut_DetailController_query_EtagFirst(rows, c, handler) ==
    LET res == query_stmt(rows, c)
        s == set_current_etag(handler, c.headers, res)
    IN
    IF res = NoRow
    THEN [exc |-> HTTPException(404, "Not Found."), etag |-> handler, result |-> NoRow]
    ELSE IF handler.present /\ s.exc # NoException
    THEN [exc |-> s.exc, etag |-> s.etag, result |-> NoRow]
    ELSE IF c.soft_delete_handler /\ SoftDeleteHandler_status(res) # NoException
    THEN [exc |-> SoftDeleteHandler_status(res),
          etag |-> IF handler.present THEN s.etag ELSE handler, result |-> NoRow]
    ELSE [exc |-> NoException,
          etag |-> IF handler.present THEN s.etag ELSE handler, result |-> res]

\* DetailController.query: the exception raised (NoException if it returns),
\* the EtagHandler afterwards and the row returned.
DetailController_query(rows, c, handler) ==
    LET res == query_stmt(rows, c) IN
    IF res = NoRow
    THEN [exc |-> HTTPException(404, "Not Found."), etag |-> handler, result |-> NoRow]
    ELSE IF c.soft_delete_handler /\ SoftDeleteHandler_status(res) # NoException
    THEN [exc |-> SoftDeleteHandler_status(res), etag |-> handler, result |-> NoRow]
    ELSE IF handler.present
    THEN LET s == set_current_etag(handler, c.headers, res) IN
         [exc |-> s.exc, etag |-> s.etag,
          result |-> IF s.exc = NoException THEN res ELSE NoRow]
    ELSE [exc |-> NoException, etag |-> handler, result |-> res]

\* Mutant: the statement does not compare etag_version.
Mut_update_where_NoEtag(row, kind, curr_etag) ==
    kind = "soft_delete" => row.deleted = FALSE

\* The WHERE clause of UpdateQueryable / SoftDeleteQueryable.update_stmt.
update_where(row, kind, curr_etag) ==
    /\ row.etag_version = curr_etag
    /\ kind = "soft_delete" => row.deleted = FALSE

\* The VALUES of UpdateQueryable / SoftDeleteQueryable.update_stmt.
update_values(row, kind, new_etag, form) ==
    IF kind = "soft_delete"
    THEN [row EXCEPT !.etag_version = new_etag, !.deleted = TRUE]
    ELSE [row EXCEPT !.etag_version = new_etag, !.name = form]

\* update_stmt executed, then one_or_none(): UPDATE ... WHERE ... RETURNING.
update_stmt(rows, c, handler, form) ==
    IF /\ c.id \in DOMAIN rows
       /\ update_where(rows[c.id], c.kind, handler.current_etag)
    THEN update_values(rows[c.id], c.kind, handler.new_etag, form)
    ELSE NoRow

\* Mutant: the text after the first ':' is kept.
Mut_split_last_AfterFirst(str) ==
    LET colons == {i \in 1..Len(str) : SubSeq(str, i, i) = ":"} IN
    IF colons = {} THEN str
    ELSE SubSeq(str, (CHOOSE i \in colons : \A j \in colons : i <= j) + 1, Len(str))

\* str.split(":")[-1]: the text after the last ':', the whole text if there is none.
split_last(str) ==
    LET colons == {i \in 1..Len(str) : SubSeq(str, i, i) = ":"} IN
    IF colons = {} THEN str
    ELSE SubSeq(str, (CHOOSE i \in colons : \A j \in colons : i >= j) + 1, Len(str))

\* CreateQueryable.insert_stmt executed, then one(): INSERT ... RETURNING with
\* the server defaults of the book table.
insert_stmt(form, uuid) == [etag_version |-> uuid, deleted |-> FALSE, name |-> form]

\* CreateController.create: the exception raised and the row returned, given
\* what the driver does with the statement; orig is str(err.orig).
CreateController_create(form, uuid, fault, orig) ==
    IF fault = "IntegrityError"
    THEN [exc |-> HTTPException(409, "Conflict."), result |-> NoRow]
    ELSE IF fault = "DBAPIError"
    THEN [exc |-> HTTPException(409, "Conflict. " \o split_last(orig)), result |-> NoRow]
    ELSE [exc |-> NoException, result |-> insert_stmt(form, uuid)]

\* Mutant: zero rows are reported as DeleteController.delete reports them.
Mut_UpdateController_update_NotFound(rows, c, handler, form, fault, orig) ==
    IF fault = "IntegrityError"
    THEN [exc |-> HTTPException(409, "Conflict."), result |-> NoRow]
    ELSE IF fault = "DBAPIError"
    THEN [exc |-> HTTPException(409, "Conflict. " \o split_last(orig)), result |-> NoRow]
    ELSE LET res == update_stmt(rows, c, handler, form) IN
         IF res = NoRow
         THEN [exc |-> HTTPException(404, "Not Found."), result |-> NoRow]
         ELSE [exc |-> NoException, result |-> res]

\* UpdateController.update: the exception raised and the row returned, given
\* what the driver does with the statement; orig is str(err.orig).
UpdateController_update(rows, c, handler, form, fault, orig) ==
    IF fault = "IntegrityError"
    THEN [exc |-> HTTPException(409, "Conflict."), result |-> NoRow]
    ELSE IF fault = "DBAPIError"
    THEN [exc |-> HTTPException(409, "Conflict. " \o split_last(orig)), result |-> NoRow]
    ELSE LET res == update_stmt(rows, c, handler, form) IN
         IF res = NoRow
         THEN [exc |-> HTTPException(409, "Stale Data."), result |-> NoRow]
         ELSE [exc |-> NoException, result |-> res]

----------------------------------------------------------------------------
(* The requests *)

\* Tags a client can present: every uuid issued so far.
KnownTags == {Uuid(n) : n \in 1..(nextUuid - 1)}
HeaderChoices == {NoHeaders} \cup {IfMatch(t) : t \in KnownTags}

\* A request arrives and its route handler runs up to the end of
\* DetailController.query.  "get" has no EtagHandler on its context, so its
\* request headers are never read; soft_delete_book always checks the
\* soft-delete field.
Query(r) ==
    /\ pc[r] = "new"
    /\ \E id \in PathIds, h \in HeaderChoices, sdh \in BOOLEAN, kind \in Kinds :
         LET c == [id |-> id, headers |-> h, soft_delete_handler |-> sdh, kind |-> kind]
             handler == IF kind = "get" THEN NoEtag ELSE EtagHandler(Uuid(nextUuid))
             q == DetailController_query(db, c, handler)
         IN /\ kind = "soft_delete" => sdh
            /\ kind = "get" => h = NoHeaders
            /\ ctx' = [ctx EXCEPT ![r] = c]
            /\ nextUuid' = IF kind = "get" THEN nextUuid ELSE nextUuid + 1
            /\ etag' = [etag EXCEPT ![r] = q.etag]
            /\ result' = [result EXCEPT ![r] = q.result]
            /\ outcome' = [outcome EXCEPT ![r] = q.exc]
            /\ pc' = [pc EXCEPT ![r] = IF q.exc = NoException THEN "queried" ELSE "done"]
    /\ UNCHANGED <<db, lock, response, executed, pg_in, pg_out, restVars>>

\* UpdateController.update.  The UPDATE waits while another open transaction
\* has written the row, and then sees that transaction's commit or rollback.
Update(r) ==
    /\ pc[r] = "queried"
    /\ ctx[r].kind # "get"
    /\ lock[ctx[r].id] = 0
    /\ \E fault \in Faults :
         LET u == UpdateController_update(db, ctx[r], etag[r], r, fault, "DataError: boom") IN
         /\ executed' = [executed EXCEPT ![r] = @ + 1]
         /\ result' = [result EXCEPT ![r] = u.result]
         /\ outcome' = [outcome EXCEPT ![r] = u.exc]
         /\ IF u.exc = NoException
            THEN /\ lock' = [lock EXCEPT ![ctx[r].id] = r]
                 /\ pc' = [pc EXCEPT ![r] = "updated"]
            ELSE /\ lock' = lock
                 /\ pc' = [pc EXCEPT ![r] = "done"]
    /\ UNCHANGED <<db, nextUuid, ctx, etag, response, pg_in, pg_out, restVars>>

\* The route surfaces the tag of the returned resource: version.set_header.
SetHeader(r) ==
    /\ \/ pc[r] = "updated" /\ ctx[r].kind = "patch"
       \/ pc[r] = "queried" /\ ctx[r].kind = "get"
    /\ response' = [response EXCEPT ![r] = set_header(@, result[r])]
    /\ pc' = [pc EXCEPT ![r] = "responded"]
    /\ UNCHANGED <<db, lock, nextUuid, ctx, etag, result, outcome, executed, pg_in, pg_out, restVars>>

\* get_transaction: the handler returned, the transaction commits.
Commit(r) ==
    /\ \/ pc[r] = "responded"
       \/ pc[r] = "updated" /\ ctx[r].kind = "soft_delete"
    /\ db' = IF ctx[r].kind = "get" THEN db ELSE [db EXCEPT ![ctx[r].id] = result[r]]
    /\ lock' = [i \in Ids |-> IF lock[i] = r THEN 0 ELSE lock[i]]
    /\ outcome' = [outcome EXCEPT ![r] =
                     HTTPException(IF ctx[r].kind = "soft_delete" THEN 204 ELSE 200, "")]
    /\ pc' = [pc EXCEPT ![r] = "done"]
    /\ UNCHANGED <<nextUuid, ctx, etag, result, response, executed, pg_in, pg_out, restVars>>


----------------------------------------------------------------------------
(* paginator.py.  A str is a TLA+ string; an Optional[str] is the empty    *)
(* set (None) or a singleton.                                              *)

OptNone == {}
Opt(str) == {str}
\* Python truthiness of an Optional[str]: neither None nor "".
Truthy(opt) == opt # OptNone /\ opt # Opt("")
Value(opt) == CHOOSE str \in opt : TRUE

\* What a call returns: None, a str, or the exception it raised.
PgNone == [exc |-> "", none |-> TRUE, url |-> ""]
PgUrl(str) == [exc |-> "", none |-> FALSE, url |-> str]
PgRaise(exc) == [exc |-> exc, none |-> FALSE, url |-> ""]

\* str.index: the lowest 0-based index where sub occurs in str, -1 for ValueError.
index(str, sub) ==
    LET found == {i \in 0..(Len(str) - Len(sub)) : SubSeq(str, i + 1, i + Len(sub)) = sub}
    IN  IF found = {} THEN -1 ELSE CHOOSE i \in found : \A j \in found : i <= j

\* sub in str
contains(str, sub) == index(str, sub) # -1

\* str[idx:]
slice(str, idx) == SubSeq(str, idx + 1, Len(str))

\* str.replace(old, new) for a non-empty old: every occurrence, left to right.
RECURSIVE replace(_, _, _)
replace(str, old, new) ==
    IF Len(str) < Len(old) THEN str
    ELSE IF SubSeq(str, 1, Len(old)) = old
    THEN new \o replace(SubSeq(str, Len(old) + 1, Len(str)), old, new)
    ELSE SubSeq(str, 1, 1) \o replace(SubSeq(str, 2, Len(str)), old, new)

\* Mutant: the offset is not subtracted.
Mut_remainder_NoOffset(total_count, current_len, offset) == total_count - current_len

\* remainder = total_count - current_len - offset
remainder(total_count, current_len, offset) == total_count - current_len - offset

\* paginator._default_paginator
default_paginator(request_url, offset, limit, current_len, total_count, next_url_start) ==
    IF total_count < 1 THEN PgNone
    ELSE IF remainder(total_count, current_len, offset) > 0
    THEN LET idx == IF Truthy(next_url_start)
                    THEN index(request_url, Value(next_url_start))
                    ELSE 0
         IN
         IF idx = -1 THEN PgRaise("ValueError")
         ELSE IF ~contains(request_url, "offset")
         THEN LET off_lim ==
                    IF contains(request_url, "?")
                    THEN IF contains(request_url, "limit")
                         THEN "&offset=" \o ToString(offset + limit)
                         ELSE "&offset=" \o ToString(offset + limit)
                                  \o "&limit=" \o ToString(limit)
                    ELSE IF contains(request_url, "limit")
                         THEN "?offset=" \o ToString(offset + limit)
                         ELSE "?offset=" \o ToString(offset + limit)
                                  \o "&limit=" \o ToString(limit)
              IN  PgUrl(slice(request_url, idx) \o off_lim)
         ELSE PgUrl(replace(slice(request_url, idx),
                            "offset=" \o ToString(offset),
                            "offset=" \o ToString(offset + limit)))
    ELSE PgNone

\* The request URLs and anchors the calls are made with.
Urls ==
    { "https://x.com/v1/book/",
      "https://x.com/v1/book/?some_param=42",
      "https://x.com/v1/book/?offset=0&limit=2",
      "https://x.com/v1/book/?offset=1&limit=1",
      "https://x.com/v1/book/?limit=2",
      "https://x.com/v1/book/?offset=10&limit=1",
      "https://x.com/book/?sort=offset",
      "https://x.com/book/",
      "https://x.com/v1/limits/",
      "https://x.com/v1/book/?min_offset=0&offset=0&limit=2" }
Anchors == {OptNone, Opt(""), Opt("/v1"), Opt("/v2")}

NotCalled ==
    [called |-> FALSE, request_url |-> "", offset |-> 0, limit |-> 0, current_len |-> 0,
     total_count |-> 0, next_url_start |-> OptNone]

\* The call of _default_paginator, with any of the arguments.
Paginate ==
    /\ ~pg_in.called
    /\ \E u \in Urls, offset \in 0..MaxOffset, limit \in 0..MaxLimit,
          current_len \in 0..MaxLen, total_count \in 0..MaxTotal, a \in Anchors :
         /\ pg_in' = [called |-> TRUE, request_url |-> u, offset |-> offset,
                      limit |-> limit, current_len |-> current_len,
                      total_count |-> total_count, next_url_start |-> a]
         /\ pg_out' = default_paginator(u, offset, limit, current_len, total_count, a)
    /\ UNCHANGED <<etagVars, restVars>>

----------------------------------------------------------------------------
(* paginator.py: get and model_mapper.  A result set is a list of rows     *)
(* with the same columns; a row is a mapping.                              *)

\* NextPageInfo(total_count, next_url); next_url is an Optional[str]
NextPageInfo(total_count, next_url) == [total_count |-> total_count, next_url |-> next_url]
NoPage == [none |-> TRUE]

\* what a call returns (value) or the exception it raised (exc)
Returns(value) == [exc |-> "", value |-> value]
Raises(exc) == [exc |-> exc, value |-> NoPage]

\* Mutant: a missing total_count is read as 0.
Mut_get_total_count_Default(results) ==
    IF "total_count" \in DOMAIN results[1]
    THEN Returns(results[1]["total_count"])
    ELSE Returns(0)

\* _get_total_count: results[0]["total_count"]
get_total_count(results) ==
    IF "total_count" \in DOMAIN results[1]
    THEN Returns(results[1]["total_count"])
    ELSE Raises("KeyError")

\* paginator.get
get(results, request_url, offset, limit, url_start_index) ==
    LET current_len == Len(results) IN
    IF current_len = 0 THEN Returns(NextPageInfo(0, OptNone))
    ELSE LET total_count == get_total_count(results) IN
         IF total_count.exc # "" THEN Raises(total_count.exc)
         ELSE LET next_url == default_paginator(request_url, offset, limit, current_len,
                                                total_count.value, Opt(url_start_index))
              IN  IF next_url.exc # "" THEN Raises(next_url.exc)
                  ELSE Returns(NextPageInfo(total_count.value,
                                            IF next_url.none THEN OptNone
                                            ELSE Opt(next_url.url)))

\* paginator.model_mapper; get is called with its default url_start_index
model_mapper(sa_result, request_url, offset, limit) ==
    LET results == [i \in 1..Len(sa_result) |-> sa_result[i]]
        page == get(results, request_url, offset, limit, "/v1")
    IN  IF page.exc # "" THEN Raises(page.exc)
        ELSE Returns([total_count |-> page.value.total_count,
                      next_url |-> page.value.next_url,
                      results |-> results])

\* The result sets: rows in any order, all with the total_count column (and
\* the same count) or all without it.
RowIds == 1..MaxLen
WithTotal(ids, total_count) ==
    [i \in 1..Len(ids) |-> [id |-> ids[i], total_count |-> total_count]]
WithoutTotal(ids) == [i \in 1..Len(ids) |-> [id |-> ids[i]]]
IdLists ==
    UNION {{ids \in [1..n -> RowIds] : \A i, j \in 1..n : i # j => ids[i] # ids[j]}
           : n \in 0..MaxLen}
ResultSets ==
    {WithTotal(ids, t) : ids \in IdLists, t \in 0..MaxTotal}
        \cup {WithoutTotal(ids) : ids \in IdLists}

NotMapped == [called |-> FALSE, result |-> <<>>, request_url |-> "", offset |-> 0, limit |-> 0]

\* The call of model_mapper, with any result set and request.
ModelMapper ==
    /\ ~mm_in.called
    /\ \E rs \in ResultSets, u \in Urls, offset \in 0..MaxOffset, limit \in 0..MaxLimit :
         /\ mm_in' = [called |-> TRUE, result |-> rs, request_url |-> u,
                      offset |-> offset, limit |-> limit]
         /\ mm_out' = model_mapper(rs, u, offset, limit)
    /\ UNCHANGED <<etagVars, pgVars, lateVars, txVars, aliasVars, bulkVars>>

NextPage == ModelMapper

----------------------------------------------------------------------------
(* dal.py: the transaction context manager.  A context is entered, its     *)
(* body executes statements on the yielded TransactionManager and then     *)
(* finishes or raises, and the context exits.  Contexts follow one         *)
(* another; each row written is named by its context and statement.        *)

NoConn == [open |-> FALSE]
\* engine.connect() and TransactionManager(conn, db): the connection sees the
\* committed rows; rows is what its statements have made of them.
Connect(table, with_commit) ==
    [open |-> TRUE, with_commit |-> with_commit, rows |-> table, statements |-> 0,
     commit |-> 0, rollback |-> 0, raised |-> ""]

\* TransactionManager.commit / rollback on the connection st.conn of the
\* database whose committed table is st.table
commit(st) == [conn |-> [st.conn EXCEPT !.commit = @ + 1], table |-> st.conn.rows]
rollback(st) ==
    [conn |-> [st.conn EXCEPT !.rollback = @ + 1, !.rows = st.table], table |-> st.table]
raise(st, exc) == [st EXCEPT !.conn.raised = exc]
\* leaving "async with db.engine.connect()": what is not committed is discarded
close(st) == [st EXCEPT !.conn.open = FALSE, !.conn.rows = st.table]

\* Mutant: the commit is in a finally clause.
Mut_transaction_exit_CommitAlways(st, body) ==
    IF body = "returns"
    THEN close(IF st.conn.with_commit THEN commit(st) ELSE st)
    ELSE IF body = "Exception"
    THEN close(raise(IF st.conn.with_commit THEN commit(st) ELSE st, body))
    ELSE close(raise(st, body))

\* transaction(): what follows the yield.  body is how the with-block ended:
\* "returns", or the class of what it raised.
transaction_exit(st, body) ==
    IF body = "returns"
    THEN close(IF st.conn.with_commit THEN commit(st) ELSE st)
    ELSE IF body = "Exception"
    THEN close(raise(rollback(st), body))
    ELSE close(raise(st, body))

\* async with dal.transaction(db, with_commit) as transaction:
Enter ==
    /\ ~conn.open /\ Len(closed) < MaxTransactions
    /\ \E with_commit \in BOOLEAN : conn' = Connect(author, with_commit)
    /\ UNCHANGED <<etagVars, pgVars, lateVars, mmVars, aliasVars, bulkVars, author, closed>>

\* transaction.execute(stmt) in the body: an insert of one row, or a delete
\* of every row.
Execute ==
    /\ conn.open /\ conn.statements < MaxStatements
    /\ \E stmt \in {"insert", "delete"} :
         conn' = [conn EXCEPT
                    !.statements = @ + 1,
                    !.rows = IF stmt = "insert"
                             THEN @ \cup {<<Len(closed) + 1, conn.statements + 1>>}
                             ELSE {}]
    /\ UNCHANGED <<etagVars, pgVars, lateVars, mmVars, aliasVars, bulkVars, author, closed>>

\* The body ends and the context exits.  What is recorded of the context:
\* the connection as it was left, how the body ended, and the rows the body
\* saw when it ended.
Exit ==
    /\ conn.open
    /\ \E body \in {"returns", "Exception", "BaseException"} :
         LET st == transaction_exit([conn |-> conn, table |-> author], body) IN
         /\ author' = st.table
         /\ closed' = Append(closed, [conn |-> st.conn, body |-> body,
                                      body_rows |-> conn.rows, before |-> author])
    /\ conn' = NoConn
    /\ UNCHANGED <<etagVars, pgVars, lateVars, mmVars, aliasVars, bulkVars>>

NextTransaction == Enter \/ Execute \/ Exit

----------------------------------------------------------------------------
(* dal.py: aliased tables.  DataAccessLayer._aliased_tables is an          *)
(* attribute of the class, one dict for every DataAccessLayer instance;    *)
(* TransactionManager.__init__ gives each instance a dict of its own.      *)

\* DataAccessLayer instances, and the TransactionManager instances with the
\* DataAccessLayer each was constructed with (its _db).
Dals == {1, 2}
Tms == {1}
db_of(tm) == 1
AliasNames == {"a", "b"}
TableValuedAliases == {1, 2}

EmptyDict == [name \in {} |-> 0]
\* d[name] = t
setitem(d, name, t) == [k \in DOMAIN d \cup {name} |-> IF k = name THEN t ELSE d[k]]
\* d[name]
getitem(d, name) == IF name \in DOMAIN d THEN Returns(d[name]) ELSE Raises("KeyError")

\* DataAccessLayer.set_aliased / get_aliased on the dict of the class
DataAccessLayer_set_aliased(d, name, t) == setitem(d, name, t)
DataAccessLayer_get_aliased(d, name) == getitem(d, name)

\* Mutant: the alias is stored in the DataAccessLayer.
Mut_set_aliased_OnDal(self, d, name, t) ==
    [self |-> self, db |-> setitem(d, name, t)]

\* TransactionManager.set_aliased: the instance's dict and the class dict after
set_aliased(self, d, name, t) == [self |-> setitem(self, name, t), db |-> d]

\* Mutant: the DataAccessLayer is looked up first.
Mut_get_aliased_DalFirst(self, d, name) ==
    IF name \in DOMAIN d THEN Returns(d[name]) ELSE getitem(self, name)

\* TransactionManager.get_aliased
get_aliased(self, d, name) ==
    IF name \notin DOMAIN self
    THEN DataAccessLayer_get_aliased(d, name)
    ELSE Returns(self[name])

NotGot == [called |-> FALSE, tm |-> 0, name |-> "", after |-> 0, out |-> Returns(NoPage)]

\* db.set_aliased(name, t) on the DataAccessLayer instance dal
DalSetAliased ==
    /\ Len(calls) < MaxCalls
    /\ \E dal \in Dals, name \in AliasNames, t \in TableValuedAliases :
         /\ DataAccessLayer_aliased_tables' =
                DataAccessLayer_set_aliased(DataAccessLayer_aliased_tables, name, t)
         /\ calls' = Append(calls, [on |-> "dal", obj |-> dal, name |-> name, t |-> t])
    /\ UNCHANGED <<etagVars, pgVars, lateVars, mmVars, txVars, bulkVars, _aliased_tables, got>>

\* transaction.set_aliased(name, t)
TmSetAliased ==
    /\ Len(calls) < MaxCalls
    /\ \E tm \in Tms, name \in AliasNames, t \in TableValuedAliases :
         LET s == set_aliased(_aliased_tables[tm], DataAccessLayer_aliased_tables, name, t) IN
         /\ _aliased_tables' = [_aliased_tables EXCEPT ![tm] = s.self]
         /\ DataAccessLayer_aliased_tables' = s.db
         /\ calls' = Append(calls, [on |-> "tm", obj |-> tm, name |-> name, t |-> t])
    /\ UNCHANGED <<etagVars, pgVars, lateVars, mmVars, txVars, bulkVars, got>>

\* transaction.get_aliased(name)
TmGetAliased ==
    /\ \E tm \in Tms, name \in AliasNames :
         got' = [called |-> TRUE, tm |-> tm, name |-> name, after |-> Len(calls),
                 out |-> get_aliased(_aliased_tables[tm], DataAccessLayer_aliased_tables, name)]
    /\ UNCHANGED <<etagVars, pgVars, lateVars, mmVars, txVars, bulkVars,
                   DataAccessLayer_aliased_tables, _aliased_tables, calls>>

NextAliased == DalSetAliased \/ TmSetAliased \/ TmGetAliased

----------------------------------------------------------------------------
(* bulk.py: BulkLoadScript.run.  The connection's transaction block        *)
(* (asyncpg) begins a transaction when entered, commits it when the block  *)
(* is left normally and rolls it back when the block is left by an         *)
(* exception, which it lets propagate.                                     *)

\* LoadOpHandler(tmp, target, source, post_copy): post_copy is set or None
LoadOpHandler(post_copy) == [post_copy |-> post_copy]
\* Mutant: the post-copy statement is executed whether or not one was given.
Mut_LoadOpHandler_execute_PostCopyAlways(op) ==
    <<"tmp", "copy_to_table", "post_copy", "target">>

\* LoadOpHandler.execute: its statements in the order it awaits them
LoadOpHandler_execute(op) ==
    IF op.post_copy THEN <<"tmp", "copy_to_table", "post_copy", "target">>
    ELSE <<"tmp", "copy_to_table", "target">>
Scripts == UNION {[1..n -> {LoadOpHandler(b) : b \in BOOLEAN}] : n \in 0..MaxOps}

NoTemp == [i \in {} |-> ""]
NoScript ==
    [pc |-> "idle", ops |-> <<>>, op |-> 0, step |-> 0, begun |-> 0,
     dest |-> {}, temp |-> NoTemp, raised |-> <<>>, before |-> {}]

\* what one statement of op number i does in the open transaction sc
statement(sc, i, stmt) ==
    IF stmt = "tmp" THEN [sc EXCEPT !.temp = (i :> "created") @@ @]
    ELSE IF stmt = "copy_to_table" THEN [sc EXCEPT !.temp[i] = "copied"]
    ELSE IF stmt = "post_copy" THEN [sc EXCEPT !.temp[i] = "indexed"]
    ELSE [sc EXCEPT !.dest = @ \cup {<<sc.begun, i>>}]

\* Mutant: the statements run on the connection without a transaction block.
Mut_block_exit_Autocommit(sc, committed, exc) ==
    IF exc = <<>>
    THEN [script |-> [sc EXCEPT !.pc = "returned", !.temp = NoTemp], tables |-> sc.dest]
    ELSE [script |-> [sc EXCEPT !.pc = "raised", !.raised = exc, !.temp = NoTemp],
          tables |-> sc.dest]

\* async with conn.transaction(): leaving the block, normally (exc = <<>>) or
\* by the exception exc.  The temp tables are dropped on commit and with the
\* rollback.
block_exit(sc, committed, exc) ==
    IF exc = <<>>
    THEN [script |-> [sc EXCEPT !.pc = "returned", !.temp = NoTemp], tables |-> sc.dest]
    ELSE [script |-> [sc EXCEPT !.pc = "raised", !.raised = exc, !.temp = NoTemp,
                                !.dest = committed],
          tables |-> committed]

\* script.run() is called: asyncpg.connect, and the transaction block is entered.
\* begun counts the transactions begun; ran is the log of this run.
Run ==
    /\ script.pc \in {"idle", "returned", "raised"} /\ script.begun < MaxRuns
    /\ \E ops \in Scripts :
         script' = [NoScript EXCEPT !.pc = "running", !.ops = ops, !.op = 1, !.step = 1,
                                     !.begun = script.begun + 1,
                                     !.dest = tables, !.before = tables]
    /\ ran' = <<>>
    /\ UNCHANGED <<etagVars, pgVars, lateVars, mmVars, txVars, aliasVars, tables>>

\* the next statement of the current op is awaited; it succeeds or fails.  A
\* failure leaves the transaction block and run.
Step ==
    /\ script.pc = "running" /\ script.op <= Len(script.ops)
    /\ LET stmts == LoadOpHandler_execute(script.ops[script.op])
           stmt == stmts[script.step]
       IN  /\ ran' = Append(ran, [op |-> script.op, stmt |-> stmt, begun |-> script.begun])
           /\ \E ok \in BOOLEAN :
                IF ok
                THEN /\ script' = [statement(script, script.op, stmt) EXCEPT
                                     !.op = IF script.step = Len(stmts) THEN @ + 1 ELSE @,
                                     !.step = IF script.step = Len(stmts) THEN 1 ELSE @ + 1]
                     /\ tables' = tables
                ELSE LET x == block_exit(script, tables, <<script.op, stmt>>) IN
                     /\ script' = x.script
                     /\ tables' = x.tables
    /\ UNCHANGED <<etagVars, pgVars, lateVars, mmVars, txVars, aliasVars>>

\* every op has run: the transaction block is left and run returns
Return ==
    /\ script.pc = "running" /\ script.op > Len(script.ops)
    /\ LET x == block_exit(script, tables, <<>>) IN
       /\ script' = x.script
       /\ tables' = x.tables
    /\ UNCHANGED <<etagVars, pgVars, lateVars, mmVars, txVars, aliasVars, ran>>

NextBulk == Run \/ Step \/ Return

----------------------------------------------------------------------------
(* controllers.py: one call of create or update whose statement the driver *)
(* may refuse                                                              *)

\* str(err.orig) of the driver errors.
OrigErrors == {"value error", "DataError: value too long", "a: b: c", "failed:"}

NoConflict ==
    [called |-> FALSE, controller |-> "", id |-> 0, kind |-> "", form |-> 0,
     current_etag |-> None, fault |-> "none", orig |-> "",
     out |-> [exc |-> NoException, result |-> NoRow]]

\* create_book: CreateController.create with a form.
Create ==
    /\ ~conflict.called
    /\ \E form \in 0..1, fault \in Faults, orig \in OrigErrors :
         conflict' = [called |-> TRUE, controller |-> "create", id |-> 0, kind |-> "",
                      form |-> form, current_etag |-> None, fault |-> fault,
                      orig |-> orig,
                      out |-> CreateController_create(form, Uuid(nextUuid), fault, orig)]
    /\ UNCHANGED <<earlyVars, scope_check, user, view, filtered, client, configured,
                   DataAccessLayer_constraints, dal_got>>

\* patch_book / soft_delete_book after a successful query: UpdateController.update
\* with the tag the EtagHandler holds.
UpdateCall ==
    /\ ~conflict.called
    /\ \E id \in PathIds, kind \in Kinds \ {"get"}, form \in 0..1, t \in 1..2,
          fault \in Faults, orig \in OrigErrors :
         LET c == [id |-> id, headers |-> IfMatch(Uuid(t)),
                   soft_delete_handler |-> kind = "soft_delete", kind |-> kind]
             handler == [EtagHandler(Uuid(nextUuid)) EXCEPT !.current_etag = Uuid(t)]
         IN conflict' = [called |-> TRUE, controller |-> "update", id |-> id,
                         kind |-> kind, form |-> form, current_etag |-> Uuid(t),
                         fault |-> fault, orig |-> orig,
                         out |-> UpdateController_update(db, c, handler, form, fault, orig)]
    /\ UNCHANGED <<earlyVars, scope_check, user, view, filtered, client, configured,
                   DataAccessLayer_constraints, dal_got>>

NextConflict == Create \/ UpdateCall

----------------------------------------------------------------------------
(* web/auth.py: Auth0.check_for_scopes and Auth0.get_user.  A claim of the *)
(* token payload that may be absent is an Optional[str]; the 'scope' claim *)
(* may also hold a value that is not a str.                                *)

\* An exception: its class, and status and detail when it is an HTTPException.
Exc(type, status_code, detail) == [type |-> type, status |-> status_code, detail |-> detail]
NoExc == Exc("", 0, "")
Auth0UnauthenticatedException(detail) == Exc("Auth0UnauthenticatedException", 401, detail)
Auth0UnauthorizedException(detail) == Exc("Auth0UnauthorizedException", 403, detail)

ScopeAbsent == [kind |-> "absent", str |-> ""]
ScopeStr(str) == [kind |-> "str", str |-> str]
ScopeOther == [kind |-> "other", str |-> ""]

\* str.split(): the maximal runs of non-whitespace characters, left to right.
RECURSIVE str_split(_, _)
str_split(str, word) ==
    IF str = "" THEN (IF word = "" THEN <<>> ELSE <<word>>)
    ELSE IF SubSeq(str, 1, 1) = " "
    THEN (IF word = "" THEN <<>> ELSE <<word>>) \o str_split(SubSeq(str, 2, Len(str)), "")
    ELSE str_split(SubSeq(str, 2, Len(str)), word \o SubSeq(str, 1, 1))

\* Mutant: a required scope passes when it occurs anywhere in the scope string.
Mut_check_for_scopes_Substring(security_scopes, payload) ==
    IF payload.scope.kind = "other"
    THEN Auth0UnauthorizedException("Token \"scope\" field must be a string")
    ELSE LET missing == {i \in 1..Len(security_scopes) :
                            ~contains(payload.scope.str, security_scopes[i])}
         IN  IF missing = {} THEN NoExc
             ELSE Auth0UnauthorizedException(
                      "Missing \"" \o security_scopes[CHOOSE i \in missing :
                                         \A j \in missing : i <= j] \o "\" scope")

\* Auth0.check_for_scopes: the exception raised, NoExc when it returns.
\* payload.get("scope", "") is "" when the claim is absent.
check_for_scopes(security_scopes, payload) ==
    IF payload.scope.kind = "other"
    THEN Auth0UnauthorizedException("Token \"scope\" field must be a string")
    ELSE LET token_scopes == str_split(payload.scope.str, "")
             missing == {i \in 1..Len(security_scopes) :
                            \A k \in 1..Len(token_scopes) :
                                token_scopes[k] # security_scopes[i]}
         IN  IF missing = {} THEN NoExc
             ELSE Auth0UnauthorizedException(
                      "Missing \"" \o security_scopes[CHOOSE i \in missing :
                                         \A j \in missing : i <= j] \o "\" scope")

\* Auth0.check_for_grant_type
check_for_grant_type(payload) ==
    IF Truthy(payload.gty) /\ Value(payload.gty) # "client-credentials"
    THEN Auth0UnauthorizedException("Token \"gty\" is not client_credentials")
    ELSE NoExc

\* Auth0.check_for_org_id
check_for_org_id(self, payload) ==
    IF Truthy(self.org_id) /\ Truthy(payload.org_id) /\ self.org_id # payload.org_id
    THEN Auth0UnauthorizedException("Token \"org_id\" does not match")
    ELSE NoExc

NoUser == [none |-> TRUE]
NoPayload == [gty |-> OptNone, org_id |-> OptNone, scope |-> ScopeAbsent,
              sub |-> FALSE, email |-> FALSE]

\* Auth0._parse_user_from_payload: user_model(**payload) needs 'sub'.
parse_user_from_payload(self, payload) ==
    IF ~payload.sub
    THEN [exc |-> Auth0UnauthorizedException("Error parsing Auth0User"), user |-> NoUser]
    ELSE IF self.email_auto_error /\ ~payload.email
    THEN [exc |-> Auth0UnauthorizedException("Missing email claim"), user |-> NoUser]
    ELSE [exc |-> NoExc, user |-> [org_id |-> payload.org_id, email |-> payload.email]]

\* What the pyjwt calls of _decode_token do with a token.
HeaderOutcomes == {"kid", "no kid", "DecodeError"}
KeyOutcomes == {"key", "PyJWKClientError"}
DecodeOutcomes == {"payload", "ExpiredSignatureError", "MissingRequiredClaimError",
                   "InvalidSignatureError"}

\* Auth0._decode_token: jwt.get_unverified_header is called outside any try;
\* PyJWKClientError and every PyJWTError of jwt.decode are caught inside.
decode_token(token) ==
    IF token.header = "DecodeError"
    THEN [exc |-> Exc("DecodeError", 0, ""), payload |-> NoPayload]
    ELSE IF token.header = "no kid"
    THEN [exc |-> Auth0UnauthenticatedException("Malformed token header"),
          payload |-> NoPayload]
    ELSE IF token.key = "PyJWKClientError"
    THEN [exc |-> Auth0UnauthorizedException("Error getting signing key: PyJWKClientError"),
          payload |-> NoPayload]
    ELSE IF token.decode # "payload"
    THEN [exc |-> Auth0UnauthorizedException("Error decoding token: " \o token.decode),
          payload |-> NoPayload]
    ELSE [exc |-> NoExc, payload |-> token.payload]

\* The body of the try block of get_user: the first exception raised.
get_user_try(self, security_scopes, token) ==
    LET d == decode_token(token)
        payload == d.payload
        p == parse_user_from_payload(self, payload)
    IN  IF d.exc # NoExc THEN [exc |-> d.exc, user |-> NoUser]
        ELSE IF check_for_grant_type(payload) # NoExc
        THEN [exc |-> check_for_grant_type(payload), user |-> NoUser]
        ELSE IF check_for_org_id(self, payload) # NoExc
        THEN [exc |-> check_for_org_id(self, payload), user |-> NoUser]
        ELSE IF self.scope_auto_error /\ check_for_scopes(security_scopes, payload) # NoExc
        THEN [exc |-> check_for_scopes(security_scopes, payload), user |-> NoUser]
        ELSE p

\* Auth0.get_user: creds is None or the bearer token.
get_user(self, security_scopes, creds) ==
    IF creds = {}
    THEN [exc |-> Exc("HTTPException", 403, "Missing bearer token"), user |-> NoUser]
    ELSE LET t == get_user_try(self, security_scopes, CHOOSE token \in creds : TRUE) IN
         IF t.exc.type = "ExpiredSignatureError"
         THEN [exc |-> Auth0UnauthenticatedException("Expired token"), user |-> NoUser]
         ELSE IF t.exc.type = "MissingRequiredClaimError"
         THEN [exc |-> Auth0UnauthenticatedException(
                           "Invalid token claims (wrong issuer or audience)"),
               user |-> NoUser]
         ELSE IF t.exc.type \in {"", "Auth0UnauthenticatedException",
                                 "Auth0UnauthorizedException"}
         THEN t
         ELSE [exc |-> Auth0UnauthenticatedException("Error decoding token"),
               user |-> NoUser]

\* The scope claims of tokens and the scopes routes require.
ScopeStrings == {"", "r:a", "r:a r:b", " r:b  r:a ", "r:ab", "w:a r:b"}
ScopeNames == {"r:a", "r:b", "r"}
SecurityScopes ==
    {<<>>} \cup {<<a>> : a \in ScopeNames} \cup {<<a, b>> : a, b \in ScopeNames}
ScopeClaims == {ScopeAbsent, ScopeOther} \cup {ScopeStr(str) : str \in ScopeStrings}

NotChecked ==
    [called |-> FALSE, security_scopes |-> <<>>, scope |-> ScopeAbsent, out |-> NoExc]

\* check_for_scopes called with a payload and the scopes of a route.
CheckForScopes ==
    /\ ~scope_check.called /\ ~user.called
    /\ \E sc \in ScopeClaims, required \in SecurityScopes :
         scope_check' = [called |-> TRUE, security_scopes |-> required, scope |-> sc,
                         out |-> check_for_scopes(required, [NoPayload EXCEPT !.scope = sc])]
    /\ UNCHANGED <<earlyVars, conflict, user, view, filtered, client, configured,
                   DataAccessLayer_constraints, dal_got>>

Payloads ==
    [gty : {OptNone, Opt(""), Opt("client-credentials"), Opt("password")},
     org_id : {OptNone, Opt("cia"), Opt("fbi")},
     scope : {ScopeAbsent, ScopeOther, ScopeStr("r:a r:b")},
     sub : BOOLEAN, email : BOOLEAN]
\* a token carries a payload only if jwt.decode returns one
Tokens ==
    {token \in [header : HeaderOutcomes, key : KeyOutcomes, decode : DecodeOutcomes,
                payload : {NoPayload}] :
        /\ token.header # "kid" => token.key = "key"
        /\ token.key # "key" \/ token.header # "kid" => token.decode = "payload"
        /\ token.header = "kid" /\ token.key = "key" => token.decode # "payload"}
    \cup {[header |-> "kid", key |-> "key", decode |-> "payload", payload |-> p] :
            p \in Payloads}
Selves == [org_id : {OptNone, Opt("cia")}, scope_auto_error : BOOLEAN,
           email_auto_error : BOOLEAN]

NoCall ==
    [called |-> FALSE, self |-> [org_id |-> OptNone, scope_auto_error |-> TRUE,
                                 email_auto_error |-> FALSE],
     security_scopes |-> <<>>, creds |-> {}, out |-> [exc |-> NoExc, user |-> NoUser]]

\* A request reaches a route that depends on Auth0.get_user.
GetUser ==
    /\ ~user.called /\ ~scope_check.called
    /\ \E self \in Selves, required \in {<<>>, <<"r:a">>, <<"r:a", "r">>},
          creds \in {{}} \cup {{token} : token \in Tokens} :
         user' = [called |-> TRUE, self |-> self, security_scopes |-> required,
                  creds |-> creds, out |-> get_user(self, required, creds)]
    /\ UNCHANGED <<earlyVars, conflict, scope_check, view, filtered, client, configured,
                   DataAccessLayer_constraints, dal_got>>

NextAuth == CheckForScopes \/ GetUser

----------------------------------------------------------------------------
(* oqm/views.py: ListViewQuery.from_query and its _paginator.  The         *)
(* total_count of a record is an Optional[int]: the empty set or {n}.      *)

\* ListViewQuery._paginator
ListViewQuery_paginator(request_url, offset, limit, results, next_url_start) ==
    IF Len(results) = 0 THEN PgNone
    ELSE IF results[1].total_count = {} THEN PgRaise("ValueError")
    ELSE LET tc == CHOOSE n \in results[1].total_count : TRUE IN
         IF tc - Len(results) - offset > 0
         THEN LET idx == IF Truthy(next_url_start)
                         THEN index(request_url, Value(next_url_start))
                         ELSE 0
              IN
              IF idx = -1 THEN PgRaise("ValueError")
              ELSE IF ~contains(request_url, "offset")
              THEN PgUrl(slice(request_url, idx) \o "&offset=" \o ToString(offset + limit))
              ELSE PgUrl(replace(slice(request_url, idx),
                                 "offset=" \o ToString(offset),
                                 "offset=" \o ToString(offset + limit)))
         ELSE PgNone

\* ListViewQuery.from_query: next_url (or the exception raised) and results.
from_query(results, request_url, offset, limit, url_start_index) ==
    [next_url |-> ListViewQuery_paginator(request_url, offset, limit, results,
                                          url_start_index),
     results |-> results]

\* What listq.list returns: up to MaxLen records, all with the same total_count.
Pages ==
    {<<>>} \cup
    {[i \in 1..n |-> [id |-> i, total_count |-> tc]] :
        n \in 1..MaxLen, tc \in {{}} \cup {{t} : t \in 0..MaxTotal}}

NoView ==
    [called |-> FALSE, request_url |-> "", offset |-> 0, limit |-> 0,
     url_start_index |-> OptNone, out |-> [next_url |-> PgNone, results |-> <<>>]]

\* A list route calls ListViewQuery.from_query.
FromQuery ==
    /\ ~view.called
    /\ \E u \in Urls, offset \in 0..MaxOffset, limit \in 0..MaxLimit,
          results \in Pages, a \in Anchors :
         view' = [called |-> TRUE, request_url |-> u, offset |-> offset, limit |-> limit,
                  url_start_index |-> a,
                  out |-> from_query(results, u, offset, limit, a)]
    /\ UNCHANGED <<earlyVars, conflict, scope_check, user, filtered, client, configured,
                   DataAccessLayer_constraints, dal_got>>

NextView == FromQuery

----------------------------------------------------------------------------
(* oqm/filters.py: Filter.filter_stmt, FilterSet.apply, WhereFilter.apply. *)
(* A statement is the sequence of the clauses added to it.  The params     *)
(* object is a function from its attribute names to their values.          *)

\* WhereFilter(tablename, col, param); the column is the parameter's
WhereFilter(tablename, param) == [tablename |-> tablename, param |-> param]
\* WhereFilter._where of the example filters: one where clause on the column
where(t, w, attr) == [clause |-> "where", tablename |-> w.tablename, t |-> t,
                      param |-> w.param, n |-> attr]
offset_clause(n) == [clause |-> "offset", tablename |-> "", t |-> "", param |-> "", n |-> n]
limit_clause(n) == [clause |-> "limit", tablename |-> "", t |-> "", param |-> "", n |-> n]

\* The transaction a filter looks tables up in: the reflected tables of its
\* DataAccessLayer, its own aliases and the aliases of the DataAccessLayer.
\* TransactionManager.get_table: metadata.tables[name]
get_table(transaction, name) ==
    IF name \in transaction.tables THEN Returns("table") ELSE Raises("KeyError")

\* WhereFilter.apply: the exception raised ("" if none) and the statement.
WhereFilter_apply(w, transaction, stmt, params) ==
    IF w.param \notin DOMAIN params THEN [exc |-> "AttributeError", stmt |-> <<>>]
    ELSE IF params[w.param] = 0 THEN [exc |-> "", stmt |-> stmt]
    ELSE LET t == get_table(transaction, w.tablename)
             a == get_aliased(transaction.aliased, transaction.db_aliased, w.tablename)
         IN  IF t.exc = ""
             THEN [exc |-> "", stmt |-> Append(stmt, where(t.value, w, params[w.param]))]
             ELSE IF a.exc = ""
             THEN [exc |-> "", stmt |-> Append(stmt, where(a.value, w, params[w.param]))]
             ELSE [exc |-> "TableLookupError", stmt |-> <<>>]

\* FilterSet.apply: for w in self.wheres, from the i-th on.
RECURSIVE FilterSet_apply(_, _, _, _, _)
FilterSet_apply(wheres, i, transaction, stmt, params) ==
    IF i > Len(wheres) THEN [exc |-> "", stmt |-> stmt]
    ELSE LET r == WhereFilter_apply(wheres[i], transaction, stmt, params) IN
         IF r.exc # "" THEN r
         ELSE FilterSet_apply(wheres, i + 1, transaction, r.stmt, params)

\* Mutant: the limit is added before the offset.
Mut_Filter_filter_stmt_LimitFirst(self, transaction, stmt) ==
    LET f == IF self.filterset # {}
             THEN FilterSet_apply(CHOOSE fs \in self.filterset : TRUE, 1, transaction,
                                  stmt, self.params)
             ELSE [exc |-> "", stmt |-> stmt]
        l == IF self.limit # {} /\ self.limit # {0}
             THEN Append(f.stmt, limit_clause(CHOOSE n \in self.limit : TRUE))
             ELSE f.stmt
        o == IF self.offset # {} /\ self.offset # {0}
             THEN Append(l, offset_clause(CHOOSE n \in self.offset : TRUE))
             ELSE l
    IN  IF f.exc # "" THEN f ELSE [exc |-> "", stmt |-> o]

\* Filter.filter_stmt.  __filterset__, limit and offset are Optional: the
\* empty set (None) or a singleton.
Filter_filter_stmt(self, transaction, stmt) ==
    LET f == IF self.filterset # {}
             THEN FilterSet_apply(CHOOSE fs \in self.filterset : TRUE, 1, transaction,
                                  stmt, self.params)
             ELSE [exc |-> "", stmt |-> stmt]
        o == IF self.offset # {} /\ self.offset # {0}
             THEN Append(f.stmt, offset_clause(CHOOSE n \in self.offset : TRUE))
             ELSE f.stmt
        l == IF self.limit # {} /\ self.limit # {0}
             THEN Append(o, limit_clause(CHOOSE n \in self.limit : TRUE))
             ELSE o
    IN  IF f.exc # "" THEN f ELSE [exc |-> "", stmt |-> l]

\* The filters, params objects and transactions of the calls.
TableNames == {"book", "fn"}
ParamNames == {"name", "year"}
WhereFilters == {WhereFilter(tn, p) : tn \in TableNames, p \in ParamNames}
FilterSets == UNION {[1..n -> WhereFilters] : n \in 0..MaxWheres}
Params == UNION {[names -> {0, 5}] : names \in SUBSET ParamNames}
Filters ==
    [filterset : {{}} \cup {{fs} : fs \in FilterSets}, params : Params,
     limit : {{}, {0}, {2}}, offset : {{}, {0}, {2}}]
AliasDict(names, t) == [name \in names |-> t]
Transactions ==
    [tables : SUBSET {"book"},
     aliased : {AliasDict(names, "tm") : names \in SUBSET TableNames},
     db_aliased : {AliasDict(names, "dal") : names \in SUBSET {"fn"}}]

NotFiltered ==
    [called |-> FALSE,
     self |-> [filterset |-> {}, params |-> AliasDict({}, 0), limit |-> {}, offset |-> {}],
     transaction |-> [tables |-> {}, aliased |-> AliasDict({}, "tm"),
                      db_aliased |-> AliasDict({}, "dal")],
     out |-> [exc |-> "", stmt |-> <<>>]]

\* A query calls filter_stmt of its Filter on a fresh select.
FilterStmt ==
    /\ ~filtered.called
    /\ \E self \in Filters, transaction \in Transactions :
         filtered' = [called |-> TRUE, self |-> self, transaction |-> transaction,
                      out |-> Filter_filter_stmt(self, transaction, <<>>)]
    /\ UNCHANGED <<earlyVars, conflict, scope_check, user, view, client, configured,
                   DataAccessLayer_constraints, dal_got>>

NextFilter == FilterStmt

----------------------------------------------------------------------------
(* A client paging through a list route: ListViewQueryParamsModel reads    *)
(* offset and limit from the query string, ListViewController.query runs   *)
(* the statement and hands the rows to paginator.model_mapper, and the     *)
(* client requests the next_url it is given.                               *)

Host == "https://x.com"
\* Query(1000, ge=0, le=1000)
DefaultLimit == 1000
MaxRequests == MaxTotal + 2

IsDigit(c) == c \in {"0", "1", "2", "3", "4", "5", "6", "7", "8", "9"}
\* int() of a string of digits
RECURSIVE int_of(_)
int_of(str) ==
    IF str = "" THEN 0
    ELSE int_of(SubSeq(str, 1, Len(str) - 1)) * 10
            + (CHOOSE d \in 0..9 : ToString(d) = SubSeq(str, Len(str), Len(str)))

\* The value of the integer query parameter key of url, default when the
\* parameter is not given.
query_param(url, key, default) ==
    LET starts == {i \in 2..Len(url) :
                      /\ SubSeq(url, i - 1, i - 1) \in {"?", "&"}
                      /\ SubSeq(url, i, i + Len(key)) = key \o "="}
    IN  IF starts = {} THEN default
        ELSE LET s == (CHOOSE i \in starts : \A j \in starts : i <= j) + Len(key) + 1
                 ends == {e \in (s - 1)..Len(url) :
                             \A k \in s..e : IsDigit(SubSeq(url, k, k))}
             IN  int_of(SubSeq(url, s, CHOOSE e \in ends : \A f \in ends : f <= e))

\* The rows the statement returns for a table of total_count rows.
page_of(total_count, offset, limit) ==
    LET avail == IF total_count - offset > 0 THEN total_count - offset ELSE 0
        current_len == IF limit < avail THEN limit ELSE avail
    IN  WithTotal([i \in 1..current_len |-> offset + i], total_count)

\* ListViewController.query for the request url
ListViewController_query(total_count, url) ==
    LET offset == query_param(url, "offset", 0)
        limit == query_param(url, "limit", DefaultLimit)
    IN  model_mapper(page_of(total_count, offset, limit), url, offset, limit)

\* The URLs a client starts with: offset 0 or none.
ClientUrls ==
    { "https://x.com/v1/book/",
      "https://x.com/v1/book/?some_param=42",
      "https://x.com/v1/book/?offset=0&limit=0",
      "https://x.com/v1/book/?offset=0&limit=1",
      "https://x.com/v1/book/?offset=0&limit=2",
      "https://x.com/v1/book/?limit=1",
      "https://x.com/v1/book/?limit=2&offset=0",
      "https://x.com/v1/book/?limit=3",
      "https://x.com/v1/book/?sort=offset&limit=1",
      "https://x.com/book/?limit=1" }

NoClient == [pc |-> "idle", url |-> "", total_count |-> 0, windows |-> <<>>]

\* The client makes its first request.
ClientStart ==
    /\ client.pc = "idle"
    /\ \E u \in ClientUrls, total_count \in 0..MaxTotal :
         client' = [pc |-> "requesting", url |-> u, total_count |-> total_count,
                    windows |-> <<>>]
    /\ UNCHANGED <<earlyVars, conflict, scope_check, user, view, filtered, configured,
                   DataAccessLayer_constraints, dal_got>>

\* The server answers the request; the client follows next_url if there is one.
ClientRequest ==
    /\ client.pc = "requesting" /\ Len(client.windows) < MaxRequests
    /\ LET r == ListViewController_query(client.total_count, client.url)
           w == [offset |-> query_param(client.url, "offset", 0),
                 limit |-> query_param(client.url, "limit", DefaultLimit),
                 len |-> Len(page_of(client.total_count,
                                     query_param(client.url, "offset", 0),
                                     query_param(client.url, "limit", DefaultLimit)))]
       IN  client' = [client EXCEPT
                        !.windows = Append(@, w),
                        !.pc = IF r.exc # "" THEN "raised"
                               ELSE IF r.value.next_url = OptNone THEN "done"
                               ELSE "requesting",
                        !.url = IF r.exc = "" /\ r.value.next_url # OptNone
                                THEN Host \o Value(r.value.next_url)
                                ELSE @]
    /\ UNCHANGED <<earlyVars, conflict, scope_check, user, view, filtered, configured,
                   DataAccessLayer_constraints, dal_got>>

NextClient == ClientStart \/ ClientRequest

----------------------------------------------------------------------------
(* version.py: EtagHandler with a configured etag_version_field.  A row is *)
(* a function from its column names to their values.                       *)

\* EtagHandler(etag_version_field)
EtagHandlerFor(etag_version_field, uuid) ==
    [etag_version_field |-> etag_version_field, new_etag |-> uuid, current_etag |-> None]

\* EtagHandler.set_current_etag on a row with any columns: the exception
\* raised and the handler afterwards.  The field is named in the assert only;
\* the comparison and the assignment read obj.etag_version.
EtagHandler_set_current_etag(self, headers, obj) ==
    IF self.etag_version_field \notin DOMAIN obj
    THEN [exc |-> Exc("AssertionError", 0, "No etag version"), etag |-> self]
    ELSE IF "If-Match" \notin DOMAIN headers
    THEN [exc |-> Exc("HTTPException", 428, "Update requires If-Match header."),
          etag |-> self]
    ELSE IF "etag_version" \notin DOMAIN obj
    THEN [exc |-> Exc("AttributeError", 0, "etag_version"), etag |-> self]
    ELSE IF obj["etag_version"] # headers["If-Match"]
    THEN [exc |-> Exc("HTTPException", 412, "Precondition Failed."), etag |-> self]
    ELSE [exc |-> NoExc, etag |-> [self EXCEPT !.current_etag = obj["etag_version"]]]

\* The field names handlers are configured with, and the rows fetched.
VersionFields == {"etag_version", "version"}
Tags == {Uuid(1), Uuid(2), Uuid(3)}
VersionedRows == UNION {[cols -> Tags] : cols \in SUBSET VersionFields}

NotConfigured ==
    [called |-> FALSE, headers |-> NoHeaders, obj |-> [c \in {} |-> None],
     out |-> [exc |-> NoExc, etag |-> EtagHandlerFor("etag_version", None)]]

\* DetailController.query calls ctx.etag.set_current_etag(ctx, result).
SetCurrentEtag ==
    /\ ~configured.called
    /\ \E f \in VersionFields, h \in {NoHeaders} \cup {IfMatch(t) : t \in Tags},
          obj \in VersionedRows :
         configured' = [called |-> TRUE, headers |-> h, obj |-> obj,
                        out |-> EtagHandler_set_current_etag(
                                    EtagHandlerFor(f, Uuid(nextUuid)), h, obj)]
    /\ UNCHANGED <<earlyVars, conflict, scope_check, user, view, filtered, client,
                   DataAccessLayer_constraints, dal_got>>

NextEtag == SetCurrentEtag

----------------------------------------------------------------------------
(* dal.py: DataAccessLayer instances.  _constraints, like _aliased_tables, *)
(* is a dict created once in the class body; no instance assigns its own.  *)

\* The keys ("table", or "schema.table") and column lists of the unique
\* constraints the inspector reports.
ConstraintKeys == {"book"}
ColumnLists == {1, 2}

\* _gather_unique_contstraints for one constraint: self._constraints[k] = columns
gather_unique_constraints(d, k, column_names) == setitem(d, k, column_names)
\* DataAccessLayer.get_unique_constraint
get_unique_constraint(d, name) == getitem(d, name)

NotGotDal == [called |-> FALSE, what |-> "", dal |-> 0, name |-> "", after |-> 0,
              out |-> Returns(NoPage)]

\* await db.reflect(engine) on the instance dal, whose database has a unique
\* constraint on the table k
DalReflect ==
    /\ Len(calls) < MaxCalls
    /\ \E dal \in Dals, k \in ConstraintKeys, column_names \in ColumnLists :
         /\ DataAccessLayer_constraints' =
                gather_unique_constraints(DataAccessLayer_constraints, k, column_names)
         /\ calls' = Append(calls, [on |-> "reflect", obj |-> dal, name |-> k,
                                    t |-> column_names])
    /\ UNCHANGED <<etagVars, pgVars, mmVars, txVars, bulkVars,
                   DataAccessLayer_aliased_tables, _aliased_tables, got,
                   conflict, scope_check, user, view, filtered, client, configured,
                   dal_got>>

\* db.get_aliased(name) on the instance dal
DalGetAliased ==
    /\ \E dal \in Dals, name \in AliasNames :
         dal_got' = [called |-> TRUE, what |-> "dal", dal |-> dal, name |-> name,
                     after |-> Len(calls),
                     out |-> DataAccessLayer_get_aliased(DataAccessLayer_aliased_tables,
                                                         name)]
    /\ UNCHANGED <<earlyVars, conflict, scope_check, user, view, filtered, client,
                   configured, DataAccessLayer_constraints>>

\* db.get_unique_constraint(name) on the instance dal
DalGetUniqueConstraint ==
    /\ \E dal \in Dals, name \in ConstraintKeys :
         dal_got' = [called |-> TRUE, what |-> "reflect", dal |-> dal, name |-> name,
                     after |-> Len(calls),
                     out |-> get_unique_constraint(DataAccessLayer_constraints, name)]
    /\ UNCHANGED <<earlyVars, conflict, scope_check, user, view, filtered, client,
                   configured, DataAccessLayer_constraints>>

NextDal == DalSetAliased \/ DalReflect \/ DalGetAliased \/ DalGetUniqueConstraint

InitLate ==
    /\ DataAccessLayer_constraints = EmptyDict
    /\ dal_got = NotGotDal
    /\ configured = NotConfigured
    /\ client = NoClient
    /\ filtered = NotFiltered
    /\ view = NoView
    /\ conflict = NoConflict
    /\ scope_check = NotChecked
    /\ user = NoCall

InitRest ==
    /\ InitLate
    /\ tables = {}
    /\ script = NoScript
    /\ ran = <<>>
    /\ mm_in = NotMapped
    /\ mm_out = Returns(NoPage)
    /\ author = {}
    /\ conn = NoConn
    /\ closed = <<>>
    /\ DataAccessLayer_aliased_tables = EmptyDict
    /\ _aliased_tables = [tm \in Tms |-> EmptyDict]
    /\ calls = <<>>
    /\ got = NotGot

InitPaginator ==
    /\ db = [i \in Ids |-> [etag_version |-> Uuid(i), deleted |-> FALSE, name |-> 0]]
    /\ lock = [i \in Ids |-> 0]
    /\ nextUuid = Cardinality(Ids) + 1
    /\ pc = [r \in Requests |-> "new"]
    /\ ctx = [r \in Requests |-> NewCtx]
    /\ etag = [r \in Requests |-> NoEtag]
    /\ result = [r \in Requests |-> NoRow]
    /\ outcome = [r \in Requests |-> NoException]
    /\ response = [r \in Requests |-> NoHeaders]
    /\ executed = [r \in Requests |-> 0]
    /\ pg_in = NotCalled
    /\ pg_out = PgNone
    /\ InitRest

NextPaginator == Paginate

SpecPaginator == InitPaginator /\ [][NextPaginator]_vars

SpecPage == InitPaginator /\ [][NextPage]_vars

SpecTransaction == InitPaginator /\ [][NextTransaction]_vars

SpecAliased == InitPaginator /\ [][NextAliased]_vars

SpecBulk == InitPaginator /\ [][NextBulk]_vars

SpecConflict == InitPaginator /\ [][NextConflict]_vars

SpecAuth == InitPaginator /\ [][NextAuth]_vars

SpecView == InitPaginator /\ [][NextView]_vars

SpecFilter == InitPaginator /\ [][NextFilter]_vars

SpecClient == InitPaginator /\ [][NextClient]_vars

SpecEtag == InitPaginator /\ [][NextEtag]_vars

SpecDal == InitPaginator /\ [][NextDal]_vars

----------------------------------------------------------------------------
(* The etag protocol *)

\* Rows as the migrations leave them: etag_version defaults to
\* gen_random_uuid() and may be NULL, deleted defaults to false.
InitialRows ==
    {rows \in [Ids -> [etag_version : {Uuid(i) : i \in Ids} \cup {None},
                       deleted : {FALSE}, name : {0}]] :
        \A i \in Ids : rows[i].etag_version \in {Uuid(i), None}}

Init ==
    /\ db \in InitialRows
    /\ lock = [i \in Ids |-> 0]
    /\ nextUuid = Cardinality(Ids) + 1
    /\ pc = [r \in Requests |-> "new"]
    /\ ctx = [r \in Requests |-> NewCtx]
    /\ etag = [r \in Requests |-> NoEtag]
    /\ result = [r \in Requests |-> NoRow]
    /\ outcome = [r \in Requests |-> NoException]
    /\ response = [r \in Requests |-> NoHeaders]
    /\ executed = [r \in Requests |-> 0]
    /\ pg_in = NotCalled
    /\ pg_out = PgNone
    /\ InitRest

Next ==
    \E r \in Requests : Query(r) \/ Update(r) \/ SetHeader(r) \/ Commit(r)

Spec == Init /\ [][Next]_vars

----------------------------------------------------------------------------
(* Vocabulary of the properties *)

Writer(r) == pc[r] # "new" /\ ctx[r].kind # "get"
HasIfMatch(r) == "If-Match" \in DOMAIN ctx[r].headers
Rejected(r, status_code, detail) ==
    pc[r] = "done" /\ outcome[r] = HTTPException(status_code, detail)
Committed(r) == Writer(r) /\ pc[r] = "done" /\ outcome[r].status \in {200, 204}
\* the update statement of r was executed and returned (a row or no row)
Returned(r) ==
    /\ Writer(r) /\ executed[r] = 1
    /\ outcome[r].status = 409 => outcome[r].detail = "Stale Data."
\* the step is r's DetailController.query
QueryStep(r) == pc[r] = "new" /\ pc'[r] # "new"
\* the step is r's UpdateController.update
UpdateStep(r) == pc[r] = "queried" /\ executed'[r] # executed[r]
\* the step commits the transaction of writer r
CommitStep(r) == Writer(r) /\ pc[r] # "done" /\ pc'[r] = "done" /\ outcome'[r].status \in {200, 204}

----------------------------------------------------------------------------
(* C1: of all the requests that passed the precondition check against the  *)
(* same stored tag T of one row and whose conditional UPDATE has returned, *)
(* exactly one got a row back (and is committed with 200/204 once it is    *)
(* done: the stored row is then its write), and every other one got zero   *)
(* rows, ended with 409 'Stale Data.' and none of its values is stored.    *)
Racers(i, T) ==
    {r \in Requests : Returned(r) /\ ctx[r].id = i /\ etag[r].current_etag = T}

----------------------------------------------------------------------------
(* C2: a row of the table changes only in the commit of a conditional      *)
(* mutation whose request presented an If-Match value equal to the tag     *)
(* stored at fetch time (the EtagHandler's current_etag) and whose UPDATE  *)
(* found the stored tag still equal to it; a request that ends in 428,     *)
(* 404, 410, 412 or 409 changes no row in the step that rejects it and     *)
(* has no write pending.                                                   *)
C2_GuardedMutationOnly ==
    [][ /\ \A i \in Ids : db'[i] # db[i] =>
             \E r \in Requests :
                 /\ CommitStep(r) /\ ctx[r].id = i /\ lock[i] = r
                 /\ HasIfMatch(r)
                 /\ ctx[r].headers["If-Match"] = etag[r].current_etag
                 /\ db[i].etag_version = etag[r].current_etag
                 /\ db'[i] = result[r]
        /\ \A r \in Requests :
             QueryStep(r) /\ pc'[r] = "queried" /\ ctx'[r].kind # "get" =>
                 /\ "If-Match" \in DOMAIN ctx'[r].headers
                 /\ ctx'[r].headers["If-Match"] = db[ctx'[r].id].etag_version
                 /\ etag'[r].current_etag = db[ctx'[r].id].etag_version
        /\ \A r \in Requests :
             UpdateStep(r) /\ result'[r] # NoRow =>
                 /\ db[ctx[r].id].etag_version = etag[r].current_etag
                 /\ lock'[ctx[r].id] = r
        /\ \A r \in Requests :
             pc[r] # "done" /\ pc'[r] = "done"
                  /\ outcome'[r].status \in {428, 404, 410, 412, 409} =>
                 /\ db' = db
                 /\ \A i \in Ids : lock'[i] # r
      ]_vars

C2_Witness ==
    \E w, l \in Requests :
        /\ Committed(w) /\ ctx[w].kind = "patch" /\ db[ctx[w].id] = result[w]
        /\ Rejected(l, 412, "Precondition Failed.") /\ ctx[l].id = ctx[w].id

----------------------------------------------------------------------------
----------------------------------------------------------------------------
(* C4: when a SoftDeleteHandler is configured and the fetched row has its  *)
(* soft-delete field true, the request ends in 410 'Gone.', whatever its   *)
(* If-Match header is (also when it equals the stored tag): current_etag   *)
(* stays None, no statement is executed and no row changes.                *)
C4_SoftDeletePrecedence ==
    [][ \A r \in Requests :
          QueryStep(r) /\ ctx'[r].soft_delete_handler /\ ctx'[r].id \in Ids
                       /\ db[ctx'[r].id].deleted =>
              /\ outcome'[r] = HTTPException(410, "Gone.")
              /\ pc'[r] = "done" /\ executed'[r] = 0 /\ db' = db
              /\ etag'[r].current_etag = None
      ]_vars

C4_Witness ==
    \E r \in Requests :
        /\ Writer(r) /\ ctx[r].soft_delete_handler /\ HasIfMatch(r)
        /\ ctx[r].id \in Ids
        /\ db[ctx[r].id].deleted
        /\ ctx[r].headers["If-Match"] = db[ctx[r].id].etag_version
        /\ Rejected(r, 410, "Gone.") /\ executed[r] = 0

----------------------------------------------------------------------------
(* C5: for a found row that passed the soft-delete check and a request     *)
(* with an If-Match header, set_current_etag raises 412 'Precondition      *)
(* Failed.' and leaves current_etag None when the row's tag differs from   *)
(* the header; when they are equal it raises nothing and sets current_etag *)
(* to the row's tag, and a later UPDATE returns a row only if the stored   *)
(* tag equals that current_etag.                                           *)
C5_TagComparison ==
    [][ /\ \A r \in Requests :
             QueryStep(r) /\ ctx'[r].kind # "get" /\ "If-Match" \in DOMAIN ctx'[r].headers
                          /\ ctx'[r].id \in Ids
                          /\ ~(ctx'[r].soft_delete_handler /\ db[ctx'[r].id].deleted) =>
                 LET c == ctx'[r] IN
                 IF db[c.id].etag_version # c.headers["If-Match"]
                 THEN /\ outcome'[r] = HTTPException(412, "Precondition Failed.")
                      /\ pc'[r] = "done"
                      /\ etag'[r].current_etag = None
                 ELSE /\ outcome'[r] = NoException
                      /\ pc'[r] = "queried"
                      /\ etag'[r].current_etag = db[c.id].etag_version
        /\ \A r \in Requests :
             UpdateStep(r) /\ result'[r] # NoRow =>
                 db[ctx[r].id].etag_version = etag[r].current_etag
      ]_vars

C5_Witness ==
    \E r, q \in Requests :
        /\ Rejected(r, 412, "Precondition Failed.") /\ HasIfMatch(r)
        /\ etag[r].current_etag = None
        /\ Writer(q) /\ pc[q] = "queried" /\ HasIfMatch(q) /\ ctx[q].id \in Ids
        /\ etag[q].current_etag = ctx[q].headers["If-Match"]
        /\ etag[q].current_etag = db[ctx[q].id].etag_version

----------------------------------------------------------------------------
(* C6: a request for an id that has no row ends in 404 'Not Found.': its   *)
(* soft-delete check and tag comparison did not run (no 410, 428 or 412,   *)
(* current_etag None) and no statement is executed for it.                 *)
C6_NotFound ==
    \A r \in Requests :
        pc[r] # "new" /\ ctx[r].id \notin Ids =>
            /\ Rejected(r, 404, "Not Found.")
            /\ executed[r] = 0
            /\ etag[r].current_etag = None
            /\ result[r] = NoRow

C6_Witness ==
    \E r \in Requests :
        /\ Writer(r) /\ ctx[r].id \notin Ids /\ ctx[r].soft_delete_handler
        /\ ~HasIfMatch(r)
        /\ Rejected(r, 404, "Not Found.")

----------------------------------------------------------------------------
(* C7: a call of UpdateController.update executes the conditional UPDATE   *)
(* exactly once and a request never executes it a second time; when the    *)
(* statement returns no row (the stored tag is no longer current_etag, or  *)
(* the row is already soft-deleted for SoftDeleteQueryable) the call ends  *)
(* the request with 409 'Stale Data.'; when it returns a row the call      *)
(* returns that row, which carries new_etag, and the request goes on to    *)
(* commit it.                                                              *)
C7_ConflictDetection ==
    /\ [](\A r \in Requests :
            /\ executed[r] <= 1
            /\ Writer(r) /\ pc[r] \in {"updated", "responded"} =>
                 executed[r] = 1 /\ result[r] # NoRow
            /\ Committed(r) => executed[r] = 1 /\ result[r] # NoRow
            /\ Rejected(r, 409, "Stale Data.") => executed[r] = 1 /\ result[r] = NoRow)
    /\ [][ \A r \in Requests :
             UpdateStep(r) =>
                 /\ executed'[r] = executed[r] + 1
                 /\ outcome'[r].status # 409 \/ outcome'[r].detail = "Stale Data." =>
                      LET row == db[ctx[r].id] IN
                      IF /\ row.etag_version = etag[r].current_etag
                         /\ ctx[r].kind = "soft_delete" => ~row.deleted
                      THEN /\ outcome'[r] = NoException /\ pc'[r] = "updated"
                           /\ result'[r].etag_version = etag[r].new_etag
                           /\ result'[r].name = IF ctx[r].kind = "patch" THEN r ELSE row.name
                      ELSE /\ outcome'[r] = HTTPException(409, "Stale Data.")
                           /\ pc'[r] = "done" /\ result'[r] = NoRow
         ]_vars

C7_Witness ==
    \E w, l \in Requests :
        /\ Committed(w) /\ executed[w] = 1 /\ result[w] # NoRow
        /\ Rejected(l, 409, "Stale Data.") /\ executed[l] = 1

----------------------------------------------------------------------------
(* C8 as stated: a committed conditional mutation replaces the stored tag  *)
(* with new_etag, which differs from the tag stored before, and after a    *)
(* committed mutation made with If-Match = tagA every later update request *)
(* for that row that presents tagA is rejected with 412.                   *)
StaleRequest(a, r) ==
    /\ Committed(a) /\ QueryStep(r) /\ ctx'[r].kind # "get"
    /\ ctx'[r].id = ctx[a].id
    /\ "If-Match" \in DOMAIN ctx'[r].headers
    /\ ctx'[r].headers["If-Match"] = etag[a].current_etag

----------------------------------------------------------------------------
(* C9: set_header puts the returned resource's etag_version into the       *)
(* response header 'Etag' when that value is not empty and leaves the      *)
(* response headers unchanged when it is empty; for a committed update the *)
(* Etag header therefore equals the etag_version of the returned row, the  *)
(* handler's new_etag, and the tag stored by the commit.                   *)
C9_EtagSurfaced ==
    /\ [](\A r \in Requests :
            pc[r] # "new" /\ ctx[r].kind = "patch"
                /\ (pc[r] = "responded" \/ Committed(r)) =>
                /\ "Etag" \in DOMAIN response[r]
                /\ response[r]["Etag"] = result[r].etag_version
                /\ response[r]["Etag"] = etag[r].new_etag)
    /\ [][ /\ \A r \in Requests :
                pc[r] # "responded" /\ pc'[r] = "responded" =>
                    IF result[r].etag_version # None
                    THEN /\ "Etag" \in DOMAIN response'[r]
                         /\ response'[r]["Etag"] = result[r].etag_version
                    ELSE DOMAIN response'[r] = DOMAIN response[r]
           /\ \A r \in Requests :
                CommitStep(r) /\ ctx[r].kind = "patch" =>
                    response[r]["Etag"] = db'[ctx[r].id].etag_version
         ]_vars

C9_Witness ==
    \E w, g \in Requests :
        /\ Committed(w) /\ ctx[w].kind = "patch"
        /\ response[w]["Etag"] = db[ctx[w].id].etag_version
        /\ ctx[g].kind = "get" /\ pc[g] = "responded"
        /\ result[g].etag_version = None /\ "Etag" \notin DOMAIN response[g]

----------------------------------------------------------------------------
(* C10: for all non-negative offset, limit, current_len and total_count,   *)
(* every request_url and every anchor, _default_paginator returns None     *)
(* (and raises nothing) whenever total_count < 1 or                        *)
(* total_count - current_len - offset <= 0.                                *)
C10_NoNextPage ==
    pg_in.called
        /\ (\/ pg_in.total_count < 1
            \/ pg_in.total_count - pg_in.current_len - pg_in.offset <= 0)
    => pg_out = PgNone

C10_Witness ==
    /\ pg_in.called /\ pg_in.total_count >= 1 /\ pg_in.offset > 0
    /\ pg_in.total_count - pg_in.current_len - pg_in.offset = 0
    /\ pg_in.total_count - pg_in.current_len > 0
    /\ pg_in.next_url_start = Opt("/v1")
    /\ ~contains(pg_in.request_url, "/v1")
    /\ pg_out = PgNone

----------------------------------------------------------------------------
(* Vocabulary of the paginator properties *)

\* a next page exists for the arguments of the call
NextPageExists ==
    /\ pg_in.called /\ pg_in.total_count >= 1
    /\ pg_in.total_count - pg_in.current_len - pg_in.offset > 0
\* where the returned string is to start: at the anchor when one is given and
\* occurs in request_url, at index 0 otherwise
SlicePoint ==
    IF Truthy(pg_in.next_url_start) /\ contains(pg_in.request_url, Value(pg_in.next_url_start))
    THEN index(pg_in.request_url, Value(pg_in.next_url_start))
    ELSE 0
Sliced == slice(pg_in.request_url, SlicePoint)
NextOffset == ToString(pg_in.offset + pg_in.limit)
AnchorAbsent ==
    Truthy(pg_in.next_url_start) /\ ~contains(pg_in.request_url, Value(pg_in.next_url_start))

----------------------------------------------------------------------------
(* C11: when a next page exists and request_url has neither an offset= nor *)
(* a limit= parameter, _default_paginator returns the URL (sliced from the *)
(* anchor when one is given) followed by &offset={offset+limit}&limit=     *)
(* {limit} when the URL contains '?' and by ?offset={offset+limit}&limit=  *)
(* {limit} otherwise.                                                      *)
C11_AppendParameters ==
    NextPageExists /\ ~contains(pg_in.request_url, "offset=")
                   /\ ~contains(pg_in.request_url, "limit=") =>
        pg_out = PgUrl(Sliced
                       \o (IF contains(pg_in.request_url, "?") THEN "&" ELSE "?")
                       \o "offset=" \o NextOffset \o "&limit=" \o ToString(pg_in.limit))

----------------------------------------------------------------------------
(* C12: when a next page exists and the literal 'offset=' is absent from   *)
(* request_url, the call returns the sliced URL followed by a block that   *)
(* contains both offset={offset+limit} and limit={limit}.                  *)
C12_AppendedBlockComplete ==
    NextPageExists /\ ~contains(pg_in.request_url, "offset=") =>
        /\ pg_out.exc = "" /\ ~pg_out.none
        /\ Len(pg_out.url) >= Len(Sliced)
        /\ SubSeq(pg_out.url, 1, Len(Sliced)) = Sliced
        /\ LET block == slice(pg_out.url, Len(Sliced)) IN
           /\ contains(block, "offset=" \o NextOffset)
           /\ contains(block, "limit=" \o ToString(pg_in.limit))

----------------------------------------------------------------------------
(* C13: when a next page exists and request_url contains                   *)
(* offset={offset}&limit={limit}, the result is the URL sliced from the    *)
(* anchor in which only the value of that offset parameter is changed to   *)
(* offset+limit: the limit parameter and every other character of the      *)
(* sliced URL are as they were.                                            *)
OffsetAndLimit ==
    "offset=" \o ToString(pg_in.offset) \o "&limit=" \o ToString(pg_in.limit)

C13_LiteralReplacement ==
    NextPageExists /\ contains(pg_in.request_url, OffsetAndLimit) =>
        LET i == index(Sliced, OffsetAndLimit) IN
        pg_out = PgUrl(IF i = -1 THEN Sliced
                       ELSE SubSeq(Sliced, 1, i) \o "offset=" \o NextOffset
                            \o slice(Sliced, i + Len("offset=" \o ToString(pg_in.offset))))

----------------------------------------------------------------------------
(* C14: the call never raises: its result is None or a string for every    *)
(* request_url, offset, limit, current_len, total_count and anchor, and    *)
(* with an anchor that does not occur in request_url the returned string   *)
(* starts at index 0 of request_url, as it does without an anchor.         *)
C14_NeverRaises ==
    pg_in.called =>
        /\ pg_out.exc = ""
        /\ AnchorAbsent =>
             pg_out = default_paginator(pg_in.request_url, pg_in.offset, pg_in.limit,
                                        pg_in.current_len, pg_in.total_count, OptNone)

----------------------------------------------------------------------------
(* C15: when a next page exists and request_url contains 'offset=' but not *)
(* the exact substring offset={offset}, the call returns the URL sliced    *)
(* from the anchor, unchanged, and raises nothing.                         *)
C15_BestEffortUnchanged ==
    NextPageExists /\ contains(pg_in.request_url, "offset=")
                   /\ ~contains(pg_in.request_url, "offset=" \o ToString(pg_in.offset)) =>
        pg_out = PgUrl(Sliced)

----------------------------------------------------------------------------
(* C16: for an empty record list page assembly returns total_count 0,      *)
(* next_url None and results []; for a non-empty list (whose first record  *)
(* has a total_count) it returns that total_count, the next_url the        *)
(* pagination cursor gives for current_len = len(records), and the input   *)
(* records in the same order.                                              *)
HasTotalCount == Len(mm_in.result) > 0 /\ "total_count" \in DOMAIN mm_in.result[1]
CursorResult ==
    default_paginator(mm_in.request_url, mm_in.offset, mm_in.limit, Len(mm_in.result),
                      mm_in.result[1]["total_count"], Opt("/v1"))

C16_PageAssembly ==
    mm_in.called =>
        /\ Len(mm_in.result) = 0 =>
             mm_out = Returns([total_count |-> 0, next_url |-> OptNone, results |-> <<>>])
        /\ HasTotalCount =>
             /\ mm_out.exc = ""
             /\ mm_out.value.total_count = mm_in.result[1]["total_count"]
             /\ mm_out.value.next_url =
                  IF CursorResult.none THEN OptNone ELSE Opt(CursorResult.url)
             /\ mm_out.value.results = mm_in.result

----------------------------------------------------------------------------
(* C17: when the record list is non-empty and its first record has no      *)
(* total_count field, page assembly raises an error and returns no page:   *)
(* no total_count and no next_url is substituted.                          *)
C17_MissingTotalCount ==
    mm_in.called /\ Len(mm_in.result) > 0 /\ "total_count" \notin DOMAIN mm_in.result[1] =>
        /\ mm_out.exc = "KeyError"
        /\ mm_out.value = NoPage

C17_Witness ==
    /\ mm_in.called /\ Len(mm_in.result) = MaxLen
    /\ "total_count" \notin DOMAIN mm_in.result[1]
    /\ contains(mm_in.request_url, "/v1")
    /\ mm_out = Raises("KeyError")

----------------------------------------------------------------------------
----------------------------------------------------------------------------
(* C19: after any sequence of set_aliased calls on a TransactionManager    *)
(* and on its DataAccessLayer, the transaction's get_aliased(name) returns *)
(* the alias last set under that name on the transaction if there is one,  *)
(* otherwise the alias last set under it on the DataAccessLayer, otherwise *)
(* it raises KeyError; and the transaction's set_aliased leaves the        *)
(* aliases stored in the DataAccessLayer as they are.                      *)
SetOn(on, obj, name, upto) ==
    {i \in 1..upto : calls[i].on = on /\ calls[i].obj = obj /\ calls[i].name = name}
Last(S) == CHOOSE i \in S : \A j \in S : j <= i
\* every call before the lookup was made on the transaction or on its DataAccessLayer
OnlyOwnCalls ==
    \A i \in 1..got.after :
        \/ calls[i].on = "tm" /\ calls[i].obj = got.tm
        \/ calls[i].on = "dal" /\ calls[i].obj = db_of(got.tm)

C19_AliasLookup ==
    /\ [](got.called /\ OnlyOwnCalls =>
            LET onTm == SetOn("tm", got.tm, got.name, got.after)
                onDal == SetOn("dal", db_of(got.tm), got.name, got.after)
            IN  got.out = IF onTm # {} THEN Returns(calls[Last(onTm)].t)
                          ELSE IF onDal # {} THEN Returns(calls[Last(onDal)].t)
                          ELSE Raises("KeyError"))
    /\ [][ Len(calls') > Len(calls) /\ calls'[Len(calls')].on = "tm" =>
             DataAccessLayer_aliased_tables' = DataAccessLayer_aliased_tables ]_vars

C19_Witness ==
    /\ got.called /\ OnlyOwnCalls /\ got.after = MaxCalls
    /\ SetOn("tm", got.tm, got.name, got.after) # {}
    /\ SetOn("dal", db_of(got.tm), got.name, got.after) # {}
    /\ calls[Last(SetOn("tm", got.tm, got.name, got.after))].t
         # calls[Last(SetOn("dal", db_of(got.tm), got.name, got.after))].t
    /\ got.out = Returns(calls[Last(SetOn("tm", got.tm, got.name, got.after))].t)

----------------------------------------------------------------------------
(* C20: BulkLoadScript.run executes the statements of its LoadOpHandler    *)
(* ops in list order, all in the one transaction it begins; when a         *)
(* statement fails, that failure is what run raises, it is the last        *)
(* statement that ran, and the destination tables are as they were before  *)
(* run: nothing written by earlier statements or earlier ops remains.      *)
RECURSIVE Flatten(_, _)
Flatten(ops, i) ==
    IF i > Len(ops) THEN <<>>
    ELSE LET stmts == LoadOpHandler_execute(ops[i]) IN
         [k \in 1..Len(stmts) |-> [op |-> i, stmt |-> stmts[k]]] \o Flatten(ops, i + 1)

C20_BulkAtomicity ==
    /\ [](script.pc # "idle" =>
            LET all == Flatten(script.ops, 1) IN
            /\ Len(ran) <= Len(all)
            /\ \A k \in 1..Len(ran) :
                 /\ ran[k].op = all[k].op /\ ran[k].stmt = all[k].stmt
                 /\ ran[k].begun = script.begun
            /\ script.pc = "running" => tables = script.before
            /\ script.pc = "returned" => Len(ran) = Len(all)
            /\ script.pc = "raised" =>
                 /\ Len(ran) > 0
                 /\ script.raised = <<ran[Len(ran)].op, ran[Len(ran)].stmt>>
                 /\ tables = script.before)
    /\ [][script.pc = "raised" /\ script'.pc = "raised" => ran' = ran /\ tables' = tables]_vars

C20_Witness ==
    /\ script.pc = "raised" /\ script.begun = 2 /\ Len(script.ops) = 2
    /\ script.raised = <<2, "target">>
    /\ script.before # {} /\ tables = script.before
    /\ \E k \in 1..Len(ran) : ran[k].op = 1 /\ ran[k].stmt = "target"

----------------------------------------------------------------------------
(* C21: in CreateController.create and UpdateController.update a driver    *)
(* IntegrityError becomes HTTP 409 with detail 'Conflict.'; any other      *)
(* DBAPIError becomes HTTP 409 with detail 'Conflict. ' followed by the    *)
(* text after the last ':' of the original driver error. No row is         *)
(* returned in either case.                                                *)
\* tail is what follows the last ':' of str (all of str when it has none)
AfterLastColon(str, tail) ==
    /\ \A i \in 1..Len(tail) : SubSeq(tail, i, i) # ":"
    /\ \/ str = tail
       \/ \E i \in 1..Len(str) :
            SubSeq(str, i, i) = ":" /\ SubSeq(str, i + 1, Len(str)) = tail

C21_ConflictMapping ==
    conflict.called =>
        /\ conflict.fault = "IntegrityError" =>
             /\ conflict.out.exc = HTTPException(409, "Conflict.")
             /\ conflict.out.result = NoRow
        /\ conflict.fault = "DBAPIError" =>
             /\ conflict.out.exc.status = 409
             /\ conflict.out.result = NoRow
             /\ Len(conflict.out.exc.detail) >= 10
             /\ SubSeq(conflict.out.exc.detail, 1, 10) = "Conflict. "
             /\ AfterLastColon(conflict.orig,
                               SubSeq(conflict.out.exc.detail, 11,
                                      Len(conflict.out.exc.detail)))

C21_Witness ==
    /\ conflict.called /\ conflict.controller = "update"
    /\ conflict.fault = "DBAPIError" /\ conflict.orig = "a: b: c"
    /\ conflict.out.exc = HTTPException(409, "Conflict.  c")
    /\ conflict.out.result = NoRow

----------------------------------------------------------------------------
(* C22: Auth0.check_for_scopes returns normally if and only if the token's *)
(* 'scope' claim is a string and every scope the route requires is one of  *)
(* its whitespace-separated entries; otherwise it raises                   *)
(* Auth0UnauthorizedException (HTTP 403), also when the claim is not a     *)
(* string.  As stated, a token with no 'scope' claim is refused even by a  *)
(* route that requires no scope; the code reads an absent claim as the     *)
(* empty string, and the amended statement says so.                        *)
\* word is one of the whitespace-separated entries of str
Entry(str, word) ==
    /\ word # ""
    /\ \A i \in 1..Len(word) : SubSeq(word, i, i) # " "
    /\ \E i \in 1..Len(str) :
         /\ i + Len(word) - 1 <= Len(str)
         /\ SubSeq(str, i, i + Len(word) - 1) = word
         /\ i = 1 \/ SubSeq(str, i - 1, i - 1) = " "
         /\ i + Len(word) - 1 = Len(str)
              \/ SubSeq(str, i + Len(word), i + Len(word)) = " "
RequiredScopesGranted ==
    \A i \in 1..Len(scope_check.security_scopes) :
        Entry(scope_check.scope.str, scope_check.security_scopes[i])
RaisesUnauthorized(exc) == exc.type = "Auth0UnauthorizedException" /\ exc.status = 403

\* the statement as written: the claim must be a string
C22_ScopeCheckAsStated ==
    scope_check.called =>
        /\ scope_check.out = NoExc <=>
             (scope_check.scope.kind = "str" /\ RequiredScopesGranted)
        /\ scope_check.out # NoExc => RaisesUnauthorized(scope_check.out)

\* amended: an absent claim counts as the empty string
C22_ScopeCheck ==
    scope_check.called =>
        /\ scope_check.out = NoExc <=>
             (scope_check.scope.kind \in {"str", "absent"} /\ RequiredScopesGranted)
        /\ scope_check.out # NoExc => RaisesUnauthorized(scope_check.out)

C22_Witness ==
    /\ scope_check.called
    /\ scope_check.scope = ScopeStr(" r:b  r:a ")
    /\ scope_check.security_scopes = <<"r:a", "r:b">>
    /\ scope_check.out = NoExc

----------------------------------------------------------------------------
(* C23: Auth0.get_user returns a user only when credentials are present,   *)
(* the token decodes, the grant-type check, the org-id check and (when     *)
(* scope_auto_error is set) the scope check all pass, in that order, and   *)
(* the payload parses into the user model; missing credentials give HTTP   *)
(* 403, Auth0UnauthorizedException from any check propagates as 403,       *)
(* Auth0UnauthenticatedException and an expired or claim-less token give   *)
(* 401, and every other exception gives 401 'Error decoding token'.        *)
TheToken == CHOOSE token \in user.creds : TRUE
Decodes(token) == token.header = "kid" /\ token.key = "key" /\ token.decode = "payload"
GrantTypeOk(payload) ==
    payload.gty \in {OptNone, Opt(""), Opt("client-credentials")}
OrgIdOk(self, payload) ==
    \/ self.org_id = OptNone
    \/ payload.org_id = OptNone
    \/ payload.org_id = self.org_id
ScopesOk(security_scopes, payload) ==
    /\ payload.scope.kind # "other"
    /\ \A i \in 1..Len(security_scopes) : Entry(payload.scope.str, security_scopes[i])
Parses(self, payload) == payload.sub /\ (self.email_auto_error => payload.email)

C23_GetUser ==
    user.called =>
        LET exc == user.out.exc IN
        /\ user.creds = {} => exc.status = 403 /\ exc.detail = "Missing bearer token"
        /\ exc = NoExc =>
             /\ user.creds # {} /\ Decodes(TheToken)
             /\ GrantTypeOk(TheToken.payload)
             /\ OrgIdOk(user.self, TheToken.payload)
             /\ user.self.scope_auto_error => ScopesOk(user.security_scopes, TheToken.payload)
             /\ Parses(user.self, TheToken.payload)
             /\ user.out.user # NoUser
        /\ exc # NoExc => user.out.user = NoUser /\ exc.status \in {401, 403}
        /\ user.creds # {} /\ Decodes(TheToken) =>
             \* the first check that fails is the one reported
             IF ~GrantTypeOk(TheToken.payload)
             THEN exc = Auth0UnauthorizedException("Token \"gty\" is not client_credentials")
             ELSE IF ~OrgIdOk(user.self, TheToken.payload)
             THEN exc = Auth0UnauthorizedException("Token \"org_id\" does not match")
             ELSE IF /\ user.self.scope_auto_error
                     /\ ~ScopesOk(user.security_scopes, TheToken.payload)
             THEN RaisesUnauthorized(exc)
             ELSE IF ~Parses(user.self, TheToken.payload)
             THEN RaisesUnauthorized(exc)
             ELSE exc = NoExc
        /\ user.creds # {} /\ TheToken.header = "no kid" => exc.status = 401
        /\ user.creds # {} /\ TheToken.header = "DecodeError" =>
             exc = Auth0UnauthenticatedException("Error decoding token")
        \* an expired or claim-less token
        /\ user.creds # {} /\ TheToken.decode \in {"ExpiredSignatureError",
                                                  "MissingRequiredClaimError"} =>
             exc.status = 401

----------------------------------------------------------------------------
(* C24: oqm ListViewQuery.from_query: for a non-empty page whose records   *)
(* carry total_count and for which total_count - len(results) - offset >   *)
(* 0, with a request URL that has no query string, next_url is the URL     *)
(* sliced from the anchor followed by '?offset={offset+limit}&limit=       *)
(* {limit}'; for an empty page next_url is None.                           *)
ViewTotal == CHOOSE n \in view.out.results[1].total_count : TRUE
ViewAnchorAt ==
    IF Truthy(view.url_start_index)
    THEN index(view.request_url, Value(view.url_start_index))
    ELSE 0

C24_ListViewNextUrl ==
    view.called =>
        /\ Len(view.out.results) = 0 => view.out.next_url = PgNone
        /\ /\ Len(view.out.results) > 0
           /\ view.out.results[1].total_count # {}
           /\ ViewTotal - Len(view.out.results) - view.offset > 0
           /\ ~contains(view.request_url, "?")
           /\ ViewAnchorAt # -1
           => view.out.next_url =
                PgUrl(SubSeq(view.request_url, ViewAnchorAt + 1, Len(view.request_url))
                      \o "?offset=" \o ToString(view.offset + view.limit)
                      \o "&limit=" \o ToString(view.limit))

----------------------------------------------------------------------------
(* C25: LoadOpHandler.execute runs its steps in a fixed order: create the  *)
(* temporary staging table, then bulk-copy the source into that table,     *)
(* then the post-copy statement if and only if one was given, then the     *)
(* target (merge) statement; a later step starts only after the earlier    *)
(* step has completed successfully, and a failing step prevents every      *)
(* later step.                                                             *)
\* the steps of op number i logged so far, oldest first
StepsOf(i) == SelectSeq(ran, LAMBDA e : e.op = i)
\* the step that may directly precede stmt in an op ("" : none, it is the first)
Precedes(op, stmt) ==
    IF stmt = "tmp" THEN ""
    ELSE IF stmt = "copy_to_table" THEN "tmp"
    ELSE IF stmt = "post_copy" THEN "copy_to_table"
    ELSE IF op.post_copy THEN "post_copy" ELSE "copy_to_table"
\* what the staging table of an op looks like once the step has completed
Completed(stmt) ==
    IF stmt = "tmp" THEN "created"
    ELSE IF stmt = "copy_to_table" THEN "copied"
    ELSE "indexed"

C25_StepOrder ==
    /\ [](script.pc # "idle" =>
            \A i \in 1..Len(script.ops) :
                LET steps == StepsOf(i) IN
                \A k \in 1..Len(steps) :
                    /\ steps[k].stmt = "post_copy" => script.ops[i].post_copy
                    /\ Precedes(script.ops[i], steps[k].stmt) =
                         (IF k = 1 THEN "" ELSE steps[k - 1].stmt))
    /\ [][ Len(ran') = Len(ran) + 1 =>
             LET e == ran'[Len(ran')] IN
             /\ script.pc = "running"
             /\ IF e.stmt = "tmp" THEN e.op \notin DOMAIN script.temp
                ELSE /\ e.op \in DOMAIN script.temp
                     /\ script.temp[e.op] = Completed(Precedes(script.ops[e.op], e.stmt)) ]_vars
    /\ [][ script.pc = "raised" /\ script'.pc = "raised" => ran' = ran ]_vars

C25_Witness ==
    /\ script.pc = "raised" /\ Len(script.ops) = 2
    /\ script.ops[1].post_copy /\ ~script.ops[2].post_copy
    /\ Len(StepsOf(1)) = 4 /\ StepsOf(1)[3].stmt = "post_copy"
    /\ Len(StepsOf(2)) = 2 /\ script.raised = <<2, "copy_to_table">>

----------------------------------------------------------------------------
(* C26: FilterSet.apply applies its WhereFilters in the order they were    *)
(* declared; a WhereFilter adds its where clause if and only if the named  *)
(* attribute of the params object is truthy, raises AttributeError when    *)
(* the params object has no such attribute, and raises TableLookupError    *)
(* when the attribute is truthy and the table name is found neither among  *)
(* reflected tables nor among aliased tables; Filter.filter_stmt adds      *)
(* offset and then limit (each when it is set and not zero) after all      *)
(* where clauses.                                                          *)
Declared == IF filtered.self.filterset = {} THEN <<>>
            ELSE CHOOSE fs \in filtered.self.filterset : TRUE
HasAttr(w) == w.param \in DOMAIN filtered.self.params
TruthyAttr(w) == HasAttr(w) /\ filtered.self.params[w.param] # 0
TableKnown(w) ==
    \/ w.tablename \in filtered.transaction.tables
    \/ w.tablename \in DOMAIN filtered.transaction.aliased
    \/ w.tablename \in DOMAIN filtered.transaction.db_aliased
\* what applying w raises according to the claim ("" : nothing)
Failure(w) ==
    IF ~HasAttr(w) THEN "AttributeError"
    ELSE IF TruthyAttr(w) /\ ~TableKnown(w) THEN "TableLookupError"
    ELSE ""
Failing == {i \in 1..Len(Declared) : Failure(Declared[i]) # ""}
\* the where clauses of the statement, in the order they were added
WhereClauses == SelectSeq(filtered.out.stmt, LAMBDA c : c.clause = "where")
Adding == SelectSeq(Declared, TruthyAttr)
IsSet(opt) == opt # {} /\ opt # {0}

----------------------------------------------------------------------------
(* C27: a client that starts at offset 0 with a fixed limit and repeatedly *)
(* requests the next_url returned by paginator.get, against a server that  *)
(* returns current_len = min(limit, max(0, total_count - offset)) records, *)
(* receives next_url = None after finitely many requests (at most          *)
(* total_count + 1) for every total_count >= 0 and every limit >= 0; every *)
(* non-None next_url carries an offset strictly greater than the current   *)
(* one, and the visited windows [offset, offset + current_len) are         *)
(* disjoint and together cover [0, total_count) when limit >= 1.           *)
InWindow(i, w) == w.offset <= i /\ i < w.offset + w.len

C27_PaginationProgress ==
    LET n == Len(client.windows) IN
    /\ client.pc # "raised"
    /\ n <= client.total_count + 1
    /\ client.pc = "requesting" /\ n >= 1 =>
         query_param(client.url, "offset", 0) > client.windows[n].offset
    /\ client.pc = "done" /\ client.windows[1].limit >= 1 =>
         \A i \in 0..(client.total_count - 1) :
             \E k \in 1..n :
                 /\ InWindow(i, client.windows[k])
                 /\ \A j \in 1..n : InWindow(i, client.windows[j]) => j = k

----------------------------------------------------------------------------
(* C28: ListViewController.query (through paginator.model_mapper) returns  *)
(* a ListViewData for every non-empty result set whose rows carry          *)
(* total_count, whatever the request URL is: the computation of next_url   *)
(* never raises, also when a next page exists and the request URL does not *)
(* contain the default anchor '/v1'.                                       *)
C28_ListViewNeverRaises ==
    mm_in.called /\ HasTotalCount =>
        /\ mm_out.exc = ""
        /\ mm_out.value # NoPage

----------------------------------------------------------------------------
(* C29: an EtagHandler constructed with etag_version_field = F compares    *)
(* the If-Match header against field F of the fetched row and records      *)
(* field F of the row as current_etag, for every field name F, not only    *)
(* for 'etag_version'.                                                     *)
C29_ConfiguredVersionField ==
    LET F == configured.out.etag.etag_version_field IN
    configured.called /\ F \in DOMAIN configured.obj
                      /\ "If-Match" \in DOMAIN configured.headers =>
        IF configured.obj[F] = configured.headers["If-Match"]
        THEN /\ configured.out.exc = NoExc
             /\ configured.out.etag.current_etag = configured.obj[F]
        ELSE /\ configured.out.exc = Exc("HTTPException", 412, "Precondition Failed.")
             /\ configured.out.etag.current_etag = None

----------------------------------------------------------------------------
(* C30: DataAccessLayer instances are isolated from each other: after any  *)
(* sequence of set_aliased and reflect calls, an alias set with            *)
(* set_aliased on one DataAccessLayer instance, or a unique constraint     *)
(* gathered by reflect on one instance, is not returned by get_aliased or  *)
(* get_unique_constraint of a different DataAccessLayer instance: a lookup *)
(* returns what the instance itself stored last under the name, and fails  *)
(* when it stored nothing.                                                 *)
C30_InstanceIsolation ==
    dal_got.called =>
        LET own == SetOn(dal_got.what, dal_got.dal, dal_got.name, dal_got.after) IN
        dal_got.out = IF own # {} THEN Returns(calls[Last(own)].t)
                      ELSE Raises("KeyError")

====
